---------------------------- MODULE Spec2Model ----------------------------
(***************************************************************************)
(* A model of the MAP protocol node (mapprotocol/ori): the state engine    *)
(* (ArchiveDB, StateDB, Balance), the transaction executor and the chain   *)
(* manager (ChainDB, BlockChain::import_block, Builder::produce_block).    *)
(*                                                                         *)
(* Byte strings are modelled as tuples that start with a tag naming the    *)
(* encoded type; Blake2b-256 is the ideal hash: Blake2b256(x) wraps its    *)
(* preimage in a 1-tuple, so it is injective, and a preimage is obtained   *)
(* from a hash only by looking the hash up in a store that holds it.       *)
(***************************************************************************)
EXTENDS Integers, Sequences, FiniteSets, TLC

VARIABLES
    kv,         \* the state KV backend (ArchiveDB.backend): the set of stored trie nodes
    sdb,        \* the open StateDB handle: [state_root, local_changes, cached]
    pend,       \* ArchiveDB::commit: the drained entries still to be put
    pc,         \* position of the StateDB user: "idle", "flushing", "crashed"
    ncommit,    \* number of commits started so far
    shadow,     \* ghost: the key/value content the open handle must show
    committed,  \* ghost: root -> content, for every root a finished commit returned
    pre_kv,     \* ghost: kv when the running commit started
    new_nodes,  \* ghost: the nodes the running commit has to write
    chaindb,    \* ChainDB: [headers, blocks, numbers, head]
    node,       \* "running"; "poisoned" once import_block panicked under the chain
                \* write lock; "proposal_stopped" once the block proposal task
                \* panicked; "panicked" once a caller of the Balance facade panicked
    build,      \* "debug" (overflow checks on) or "release" (wrapping arithmetic)
    last,       \* the last call and what it returned
    nops,       \* number of calls (or handled events) made so far
    local_height, \* the height of the head the network side sees (BlockChain::current_block)
    rs,         \* RangeSync.chains: the SyncingChain
    mgr,        \* SyncManager: [state, full_peers, parents]
    net,        \* what the node sent: [request_id, downvoted, disconnected, statused, root_requests]
    workers,    \* the block processor threads that are running
    chan,       \* the BatchProcessed messages waiting in the channel of the sync manager
    queue,      \* MessageProcessor.queue: the gossiped blocks kept for later
    handed,     \* log: the batch ids given to spawn_block_processor, in order
    txpool,     \* TxPoolManager: [pending, pool, ordered_queue]; sent: the
                \* transactions given to the network
    ended,      \* the ids of the BlocksByRange requests whose stream ended in an
                \* RPC error: no response comes for them any more
    slots       \* the slot clock of the committee: [now, delay, vrf, proposed]

stateVars == <<kv, sdb, pend, pc, ncommit, shadow, committed, pre_kv, new_nodes>>
chainVars == <<chaindb, node, build, last, nops>>
syncVars == <<local_height, rs, mgr, net, workers, chan, queue, handed, ended, slots>>
netVars == <<local_height, rs, mgr, net, workers, chan, queue, handed, txpool, ended, slots>>
vars == <<kv, sdb, pend, pc, ncommit, shadow, committed, pre_kv, new_nodes,
          chaindb, node, build, last, nops,
          local_height, rs, mgr, net, workers, chan, queue, handed, txpool, ended, slots>>

--------------------------------------------------------------------------
(* Bounds of the model *)

\* calls of the validator list one run of SpecStaking makes
MaxStakingOps == 4

\* the number of Status and gossip messages a run of the network side takes
MaxSyncEvents == 3

\* the height of the head of the peers that serve blocks
RemoteHead == 10

\* the number of Status messages a run with faulty peers takes
MaxFaultyEvents == 2

\* the number of transactions submitted in a run of the pool
MaxPoolOps == 4

MaxExecOps == 3

MaxLiveEvents == 2

\* the height of the head up to which the node with the pool takes blocks
MaxPoolHeight == 1

\* the highest gas price of a submitted transaction
MaxPrice == 4

\* the number of blocks gossiped in a run of the gossip handler
MaxGossipEvents == 4

\* the number of Status messages a run of the handshake takes
MaxStatusEvents == 6

\* the height of the head of a peer far ahead of the node
FarHead == 30

\* commits one run of SpecState starts
MaxCommits == 2

\* the width in bits the u128 amounts are scaled to
U128Bits == 16

\* Balance facade calls one run of SpecBalance makes
MaxOps == 3

\* the height up to which Spec grows the chain
MaxHeight == 2

\* the genesis allocation of 10^18 (genesis.rs, ALLOCATION), scaled to the
\* width the amounts have in the model
ALLOCATION_VALUE == 30000

--------------------------------------------------------------------------
(* Bytes, options and maps *)

\* Option<T>: Some(v) is <<v>>, None is <<>>
Some(v) == <<v>>
None == <<>>

EmptyMap == [k \in {} |-> None]

MapPut(m, k, v) == [x \in DOMAIN m \cup {k} |-> IF x = k THEN v ELSE m[x]]

MapGet(m, k) == IF k \in DOMAIN m THEN m[k] ELSE None

\* Op applied to the value of x, which is evaluated once
Eval(x, Op(_)) == CHOOSE r \in {Op(v) : v \in {x}} : TRUE

\* hash::blake2b_256
Blake2b256(bytes) == <<bytes>>

\* Hash::default(), 32 zero bytes: the hash of nothing the model ever hashes
ZeroHash == <<>>

--------------------------------------------------------------------------
(* The trie (trie.rs) over the ArchiveDB (state.rs).  The Patricia trie of *)
(* the trie_db crate is modelled two levels deep: a root branch node that  *)
(* holds, per key, the hash of a leaf node, and one leaf node per key.     *)

EMPTY_TRIE == <<"empty">>

NULL_ROOT == Blake2b256(EMPTY_TRIE)

leaf_node(key, value) == <<"leaf", key, value>>

branch_node(children) == <<"branch", children>>

\* HashDB::contains for ArchiveDB: the cache first, then the backend; the
\* MemoryDB cache always answers for the hashed null node
ArchiveDB_contains(cached, backend, h) ==
    \/ h = NULL_ROOT
    \/ /\ Len(h) = 1
       /\ h[1] \in cached \cup backend

\* the children of the root node of the trie at `root`
TrieChildren(root) == IF root = NULL_ROOT THEN EmptyMap ELSE root[1][2]

\* Trie::get raises IncompleteDatabase when the leaf it needs is not stored
TrieGetFails(cached, backend, root, key) ==
    /\ key \in DOMAIN TrieChildren(root)
    /\ ~ArchiveDB_contains(cached, backend, TrieChildren(root)[key])

TrieGet(cached, backend, root, key) ==
    IF key \in DOMAIN TrieChildren(root)
    THEN Some(TrieChildren(root)[key][1][3])
    ELSE None

--------------------------------------------------------------------------
(* StateDB (state.rs) *)

StateDB_from_existing(root) ==
    [state_root |-> root, local_changes |-> EmptyMap, cached |-> {}]

set_storage(s, key, value) ==
    [s EXCEPT !.local_changes = MapPut(@, key, Some(value))]

remove_storage(s, key) ==
    [s EXCEPT !.local_changes = MapPut(@, key, None)]

\* get_storage panics ("state get key") when the trie lookup fails
get_storage_panics(s, backend, key) ==
    /\ key \notin DOMAIN s.local_changes
    /\ ArchiveDB_contains(s.cached, backend, s.state_root)
    /\ TrieGetFails(s.cached, backend, s.state_root, key)

get_storage(s, backend, key) ==
    IF key \in DOMAIN s.local_changes
    THEN s.local_changes[key]
    ELSE IF ~ArchiveDB_contains(s.cached, backend, s.state_root)
         THEN None
         ELSE TrieGet(s.cached, backend, s.state_root, key)

\* TrieDBMut::from_existing(...).expect("open trie error"), and the unwrap of
\* each insert/remove, which reads the leaf a changed key had before
StateDB_commit_panics(s, backend) ==
    \/ ~ArchiveDB_contains(s.cached, backend, s.state_root)
    \/ \E k \in DOMAIN s.local_changes :
          TrieGetFails(s.cached, backend, s.state_root, k)

\* the children of the root after the overlay is applied
AppliedChildren(s) ==
    LET old == TrieChildren(s.state_root)
        ch == s.local_changes
        keep == (DOMAIN old \cup {k \in DOMAIN ch : ch[k] # None})
                    \ {k \in DOMAIN ch : ch[k] = None}
    IN [k \in keep |->
            IF k \in DOMAIN ch
            THEN Blake2b256(leaf_node(k, ch[k][1]))
            ELSE old[k]]

AppliedRoot(s) ==
    IF DOMAIN AppliedChildren(s) = {}
    THEN NULL_ROOT
    ELSE Blake2b256(branch_node(AppliedChildren(s)))

\* the nodes the trie inserts when it is dropped: every node of the new trie
\* that the old trie did not have
AppliedInserts(s) ==
    LET old == TrieChildren(s.state_root)
        new == AppliedChildren(s)
    IN {new[k][1] : k \in {x \in DOMAIN new : x \notin DOMAIN old \/ old[x] # new[x]}}
       \cup (IF AppliedRoot(s) # s.state_root /\ AppliedRoot(s) # NULL_ROOT
             THEN {branch_node(new)} ELSE {})

\* the first block of StateDB::commit: the overlay applied to the trie, the
\* new root stored in state_root, the new nodes in the ArchiveDB cache
TrieApply(s) ==
    [s EXCEPT !.state_root = AppliedRoot(s),
              !.cached = @ \cup AppliedInserts(s)]

\* mutant of ArchiveDB_commit: the drained entries are dropped, not put
ArchiveDB_commit_drops(cached, backend) == backend

\* ArchiveDB::commit, run to its end: every cached node is put to the backend
ArchiveDB_commit(cached, backend) == backend \cup cached

\* StateDB::commit run to its end: [s |-> the handle, kv |-> the backend]
StateDB_commit(s, backend) ==
    Eval(TrieApply(s), LAMBDA applied :
        [s  |-> [applied EXCEPT !.cached = {}],
         kv |-> ArchiveDB_commit(applied.cached, backend)])

--------------------------------------------------------------------------
(* SpecState: one StateDB handle over the backend, with a commit that can  *)
(* be interrupted between two puts of ArchiveDB::commit.                   *)

\* the storage keys and values the handle is driven with
Keys == {Blake2b256(<<"key", "k1">>), Blake2b256(<<"key", "k2">>)}

Values == {<<"value", "a">>, <<"value", "b">>}

NoContent == [k \in Keys |-> None]

NoChain == [headers |-> EmptyMap, blocks |-> EmptyMap, numbers |-> EmptyMap,
            head |-> ZeroHash]

NoCall == [op |-> "none", result |-> "none"]

\* the network side before it is started
NetIdle ==
    /\ local_height = 0
    /\ rs = None
    /\ mgr = None
    /\ net = None
    /\ workers = {}
    /\ chan = <<>>
    /\ queue = {}
    /\ handed = <<>>
    /\ txpool = None
    /\ ended = {}
    /\ slots = None

InitState ==
    /\ kv = {}
    /\ sdb = StateDB_from_existing(NULL_ROOT)
    /\ pend = {}
    /\ pc = "idle"
    /\ ncommit = 0
    /\ shadow = NoContent
    /\ committed = (NULL_ROOT :> NoContent)
    /\ pre_kv = {}
    /\ new_nodes = {}
    /\ chaindb = NoChain
    /\ node = "running"
    /\ build = "release"
    /\ last = NoCall
    /\ nops = 0
    /\ NetIdle

\* StateDB::from_existing at a root some commit returned (or the null root)
OpenState(root) ==
    /\ pc \in {"idle", "crashed"}
    /\ root \in DOMAIN committed
    /\ sdb' = StateDB_from_existing(root)
    /\ shadow' = committed[root]
    /\ pc' = "idle"
    /\ UNCHANGED <<kv, pend, ncommit, committed, pre_kv, new_nodes>>
    /\ UNCHANGED chainVars
    /\ UNCHANGED netVars

SetStorage(key, value) ==
    /\ pc = "idle"
    /\ sdb' = set_storage(sdb, key, value)
    /\ shadow' = [shadow EXCEPT ![key] = Some(value)]
    /\ UNCHANGED <<kv, pend, pc, ncommit, committed, pre_kv, new_nodes>>
    /\ UNCHANGED chainVars
    /\ UNCHANGED netVars

RemoveStorage(key) ==
    /\ pc = "idle"
    /\ sdb' = remove_storage(sdb, key)
    /\ shadow' = [shadow EXCEPT ![key] = None]
    /\ UNCHANGED <<kv, pend, pc, ncommit, committed, pre_kv, new_nodes>>
    /\ UNCHANGED chainVars
    /\ UNCHANGED netVars

\* StateDB::commit up to the drain() of ArchiveDB::commit
CommitBegin ==
    /\ pc = "idle"
    /\ ncommit < MaxCommits
    /\ ~StateDB_commit_panics(sdb, kv)
    /\ sdb' = [TrieApply(sdb) EXCEPT !.cached = {}]
    /\ pend' = TrieApply(sdb).cached
    /\ pc' = "flushing"
    /\ ncommit' = ncommit + 1
    /\ pre_kv' = kv
    /\ new_nodes' = TrieApply(sdb).cached
    /\ UNCHANGED <<kv, shadow, committed>>
    /\ UNCHANGED chainVars
    /\ UNCHANGED netVars

\* one backend.put of the loop over the drained entries, in HashMap order
CommitPut(n) ==
    /\ pc = "flushing"
    /\ n \in pend
    /\ kv' = ArchiveDB_commit({n}, kv)
    /\ pend' = pend \ {n}
    /\ UNCHANGED <<sdb, pc, ncommit, shadow, committed, pre_kv, new_nodes>>
    /\ UNCHANGED chainVars
    /\ UNCHANGED netVars

\* StateDB::commit returns
CommitReturn ==
    /\ pc = "flushing"
    /\ pend = {}
    /\ pc' = "idle"
    /\ committed' = [r \in DOMAIN committed \cup {sdb.state_root} |->
                        IF r = sdb.state_root THEN shadow ELSE committed[r]]
    /\ pre_kv' = {}
    /\ new_nodes' = {}
    /\ UNCHANGED <<kv, sdb, pend, ncommit, shadow>>
    /\ UNCHANGED chainVars
    /\ UNCHANGED netVars

\* the process stops inside the loop: the entries not yet put are lost
Interrupt ==
    /\ pc = "flushing"
    /\ pc' = "crashed"
    /\ pend' = {}
    /\ UNCHANGED <<kv, sdb, ncommit, shadow, committed, pre_kv, new_nodes>>
    /\ UNCHANGED chainVars
    /\ UNCHANGED netVars

NextState ==
    \/ \E root \in DOMAIN committed : OpenState(root)
    \/ \E key \in Keys, value \in Values : SetStorage(key, value)
    \/ \E key \in Keys : RemoveStorage(key)
    \/ CommitBegin
    \/ \E n \in pend : CommitPut(n)
    \/ CommitReturn
    \/ Interrupt

SpecState == InitState /\ [][NextState]_vars

\* C7: a StateDB opened at a committed root R returns for every key the last
\* value set before the commit that produced R, and nothing when the key was
\* never set or was removed last; the open handle returns its overlay entry
\* when it has one and the value of the trie at its root otherwise.
C7_CommittedReads ==
    /\ \A root \in DOMAIN committed : \A k \in Keys :
          /\ ~get_storage_panics(StateDB_from_existing(root), kv, k)
          /\ get_storage(StateDB_from_existing(root), kv, k) = committed[root][k]
    /\ pc = "idle" =>
          \A k \in Keys :
              /\ ~get_storage_panics(sdb, kv, k)
              /\ get_storage(sdb, kv, k) = shadow[k]

\* a root committed with one key set and another key removed after it was
\* committed under an earlier root
C7_Witness ==
    \E r1, r2 \in DOMAIN committed : \E k1, k2 \in Keys :
        /\ committed[r1][k2] # None
        /\ committed[r2][k2] = None
        /\ committed[r2][k1] # None
        /\ r2 # NULL_ROOT
        /\ pc = "idle"
        /\ sdb.state_root = r2
        /\ k2 \in DOMAIN sdb.local_changes

--------------------------------------------------------------------------
(* Accounts and the Balance facade (balance.rs).  u128 arithmetic is       *)
(* unguarded: a debug build panics on overflow, a release build wraps.     *)

U128 == 2^U128Bits

U128_MAX == U128 - 1

add_overflows(a, b) == a + b >= U128

sub_overflows(a, b) == a < b

wrapping_add(a, b) == (a + b) % U128

wrapping_sub(a, b) == (a - b + U128) % U128

\* Address::default(): twenty zero bytes
Address_default == "0x0000000000000000000000000000000000000000"

\* Hash::from_bytes: the bytes left-padded to 32
Hash_from_bytes(bytes) == <<"pad32", bytes>>

address_key(addr) == Blake2b256(Hash_from_bytes(addr))

Account_default == [balance |-> 0, nonce |-> 0, locked_balance |-> 0]

\* bincode::serialize(&Account) and its inverse
EncodeAccount(account) ==
    <<"Account", account.balance, account.nonce, account.locked_balance>>

DecodeAccount(bytes) ==
    [balance |-> bytes[2], nonce |-> bytes[3], locked_balance |-> bytes[4]]

\* Balance::new over a StateDB handle and the backend its ArchiveDB shares;
\* panicked records that a call on the facade has panicked
Balance_new(statedb, backend) ==
    [treedb |-> statedb, backend |-> backend, panicked |-> FALSE]

Panic(st) == [st EXCEPT !.panicked = TRUE]

load_account_panics(st, addr) ==
    get_storage_panics(st.treedb, st.backend, address_key(addr))

load_account(st, addr) ==
    LET serialized == get_storage(st.treedb, st.backend, address_key(addr))
    IN IF serialized = None
       THEN Account_default
       ELSE DecodeAccount(serialized[1])

set_account(st, addr, account) ==
    [st EXCEPT !.treedb = set_storage(@, address_key(addr), EncodeAccount(account))]

inc_nonce(st0, addr) ==
    Eval(st0, LAMBDA st :
        IF st.panicked THEN st
        ELSE IF load_account_panics(st, addr) THEN Panic(st)
        ELSE set_account(st, addr, [load_account(st, addr) EXCEPT !.nonce = @ + 1]))

add_balance(st0, addr, value) ==
    Eval(st0, LAMBDA st :
        IF st.panicked THEN st
        ELSE IF load_account_panics(st, addr) THEN Panic(st)
        ELSE IF build = "debug" /\ add_overflows(load_account(st, addr).balance, value)
             THEN Panic(st)
        ELSE set_account(st, addr,
                 [load_account(st, addr) EXCEPT !.balance = wrapping_add(@, value)]))

sub_balance(st0, addr, value) ==
    Eval(st0, LAMBDA st :
        IF st.panicked THEN st
        ELSE IF load_account_panics(st, addr) THEN Panic(st)
        ELSE IF build = "debug" /\ sub_overflows(load_account(st, addr).balance, value)
             THEN Panic(st)
        ELSE set_account(st, addr,
                 [load_account(st, addr) EXCEPT !.balance = wrapping_sub(@, value)]))

slash(st0, addr, value) ==
    Eval(st0, LAMBDA st :
        IF st.panicked THEN st
        ELSE IF load_account_panics(st, addr) THEN Panic(st)
        ELSE IF build = "debug"
                /\ sub_overflows(load_account(st, addr).locked_balance, value)
             THEN Panic(st)
        ELSE set_account(st, addr,
                 [load_account(st, addr) EXCEPT
                     !.locked_balance = wrapping_sub(@, value)]))

lock_balance(st0, addr, value) ==
    Eval(st0, LAMBDA st :
        IF st.panicked THEN st
        ELSE IF load_account_panics(st, addr) THEN Panic(st)
        ELSE IF build = "debug"
                /\ (\/ sub_overflows(load_account(st, addr).balance, value)
                    \/ add_overflows(load_account(st, addr).locked_balance, value))
             THEN Panic(st)
        ELSE set_account(st, addr,
                 [load_account(st, addr) EXCEPT
                     !.balance = wrapping_sub(@, value),
                     !.locked_balance = wrapping_add(@, value)]))

unlock_balance(st0, addr, value) ==
    Eval(st0, LAMBDA st :
        IF st.panicked THEN st
        ELSE IF load_account_panics(st, addr) THEN Panic(st)
        ELSE IF build = "debug"
                /\ (\/ add_overflows(load_account(st, addr).balance, value)
                    \/ sub_overflows(load_account(st, addr).locked_balance, value))
             THEN Panic(st)
        ELSE set_account(st, addr,
                 [load_account(st, addr) EXCEPT
                     !.balance = wrapping_add(@, value),
                     !.locked_balance = wrapping_sub(@, value)]))

transfer(st0, from_addr, to_addr, amount) ==
    Eval(st0, LAMBDA st :
        IF st.panicked THEN st
        ELSE IF load_account_panics(st, from_addr) THEN Panic(st)
        ELSE IF load_account(st, from_addr).balance >= amount
             THEN add_balance(sub_balance(st, from_addr, amount), to_addr, amount)
             ELSE st)

\* Balance::commit: the StateDB commit run to its end, then root()
Balance_commit(st0) ==
    Eval(st0, LAMBDA st :
        IF st.panicked \/ StateDB_commit_panics(st.treedb, st.backend)
        THEN [st |-> Panic(st), root_hash |-> ZeroHash]
        ELSE Eval(StateDB_commit(st.treedb, st.backend), LAMBDA done :
                 [st |-> [st EXCEPT !.treedb = done.s, !.backend = done.kv],
                  root_hash |-> done.s.state_root]))

--------------------------------------------------------------------------
(* SpecBalance: the Balance facade called on one StateDB handle, as the    *)
(* tests of balance.rs and the Staking module call it.                     *)

Alice == "0xd2480451ef35ff2fdd7c69cad058719b9dc4d631"

Bob == "0x0000000000000000000000000000000000000001"

\* the amounts the facade is called with
Amounts == {1, 2}

InitAccounts ==
    {[balance |-> b, nonce |-> 0, locked_balance |-> l] :
        b \in {1, U128_MAX}, l \in {0, 2}}

InitBalance ==
    /\ kv = {}
    /\ \E account \in InitAccounts :
          sdb = set_account(Balance_new(StateDB_from_existing(NULL_ROOT), {}),
                            Alice, account).treedb
    /\ build \in {"debug", "release"}
    /\ node = "running"
    /\ last = NoCall
    /\ nops = 0
    /\ pend = {}
    /\ pc = "idle"
    /\ ncommit = 0
    /\ shadow = NoContent
    /\ committed = (NULL_ROOT :> NoContent)
    /\ pre_kv = {}
    /\ new_nodes = {}
    /\ chaindb = NoChain
    /\ NetIdle

\* the facade over the open handle
Facade == Balance_new(sdb, kv)

\* what a call that left the facade as st leaves behind
Called(op, st0) ==
    \E st \in {st0} :
       /\ node = "running"
       /\ nops < MaxOps
       /\ nops' = nops + 1
       /\ node' = IF st.panicked THEN "panicked" ELSE "running"
       /\ sdb' = IF st.panicked THEN sdb ELSE st.treedb
       /\ kv' = IF st.panicked THEN kv ELSE st.backend
       /\ last' = [op |-> op, result |-> IF st.panicked THEN "panic" ELSE "Ok"]
       /\ UNCHANGED <<pend, pc, ncommit, shadow, committed, pre_kv, new_nodes,
                      chaindb, build>>
       /\ UNCHANGED netVars

IncNonce(addr) == Called("inc_nonce", inc_nonce(Facade, addr))

AddBalance(addr, value) == Called("add_balance", add_balance(Facade, addr, value))

SubBalance(addr, value) == Called("sub_balance", sub_balance(Facade, addr, value))

Slash(addr, value) == Called("slash", slash(Facade, addr, value))

LockBalance(addr, value) == Called("lock_balance", lock_balance(Facade, addr, value))

UnlockBalance(addr, value) ==
    Called("unlock_balance", unlock_balance(Facade, addr, value))

Transfer(from_addr, to_addr, amount) ==
    Called("transfer", transfer(Facade, from_addr, to_addr, amount))

BalanceCommit == Called("commit", Balance_commit(Facade).st)

NextBalance ==
    \/ IncNonce(Alice)
    \/ \E value \in Amounts : AddBalance(Alice, value)
    \/ \E value \in Amounts : SubBalance(Alice, value)
    \/ \E value \in Amounts : Slash(Alice, value)
    \/ \E value \in Amounts : LockBalance(Alice, value)
    \/ \E value \in Amounts : UnlockBalance(Alice, value)
    \/ \E value \in Amounts : Transfer(Alice, Bob, value)
    \/ BalanceCommit

SpecBalance == InitBalance /\ [][NextBalance]_vars

\* balance + locked_balance of an account, read through the open handle
Total(addr) ==
    load_account(Facade, addr).balance + load_account(Facade, addr).locked_balance

\* C10: lock_balance and unlock_balance return without a panic and leave
\* balance + locked_balance of every account what it was: neither field
\* overflows or underflows.
C10_LockKeepsTotal ==
    [][last'.op \in {"lock_balance", "unlock_balance"} /\ nops' = nops + 1
         => /\ node' = "running"
            /\ Total(Alice)' = Total(Alice)
            /\ Total(Bob)' = Total(Bob)]_vars

--------------------------------------------------------------------------
(* Signatures (ed25519), transactions (transaction.rs), blocks (block.rs)  *)

\* an ideal signature scheme: the signature of msg under the private key of
\* pk is a value only the holder of that key makes
Sign(pk, msg) == <<"sig", pk, msg>>

\* Pubkey::verify
Pubkey_verify(pk, msg, sign_info) == sign_info = Sign(pk, msg)

CHAIN_ID == 1

\* bincode::serialize(&MsgTransfer) and bincode::deserialize::<MsgTransfer>:
\* decoding fails on data shorter than the 36 bytes of the two fields
EncodeMsgTransfer(receiver, value) == <<"MsgTransfer", receiver, value>>

MsgTransfer_decodes(data) == Len(data) = 3 /\ data[1] = "MsgTransfer"

\* Transaction::new: the signature fields are zero
Transaction_new(sender, nonce, gas_price, gas, method, data) ==
    [sender |-> sender, nonce |-> nonce, gas_price |-> gas_price, gas |-> gas,
     call |-> method, data |-> data, sign_data |-> Sign("0x00", ZeroHash)]

\* Transaction::hash: the hash of TxHashType, which leaves the sender out
Transaction_hash(tx) ==
    Blake2b256(<<"TxHashType", CHAIN_ID, tx.nonce, tx.gas_price, tx.gas,
                 tx.call, tx.data>>)

\* Transaction::sign with the private key of pk
Transaction_sign(tx, pk) == [tx EXCEPT !.sign_data = Sign(pk, Transaction_hash(tx))]

\* Transaction::verify_sign: the key is the one the signature names
verify_sign(tx) ==
    Pubkey_verify(tx.sign_data[2], Transaction_hash(tx), tx.sign_data)

get_to_address(tx) == tx.data[2]

get_value(tx) == tx.data[3]

Header_hash(header) == Blake2b256(<<"Header", header>>)

get_hash_from_txs(txs) == Blake2b256(<<"txs", txs>>)

get_hash_from_signs(signs) == Blake2b256(<<"signs", signs>>)

Header_default ==
    [height |-> 0, parent_hash |-> ZeroHash, tx_root |-> ZeroHash,
     sign_root |-> ZeroHash, state_root |-> ZeroHash, time |-> 0]

\* Block::new
Block_new(header, txs, signs, proofs) ==
    [header |-> [header EXCEPT !.tx_root = get_hash_from_txs(txs),
                               !.sign_root = get_hash_from_signs(signs)],
     signs |-> signs, txs |-> txs, proofs |-> proofs]

Block_hash(block) == Header_hash(block.header)

\* BlockProof::new(0, pk)
BlockProof_new(pk) == <<"BlockProof", pk, 0>>

\* POA::sign_block with the private key of pk: the hash of the block as it
\* is gets signed, then the item is added and sign_root is set again
sign_block(pk, b) ==
    LET h == Block_hash(b)
        signs == Append(b.signs, [msg |-> h, signs |-> Sign(pk, h)])
    IN [b EXCEPT !.signs = signs,
                 !.header.sign_root = get_hash_from_signs(signs)]

--------------------------------------------------------------------------
(* The executor (executor/src/lib.rs) *)

transfer_fee == 10000

\* Executor::exc_transfer_tx: [state |-> the facade after it, err |-> the
\* error it returned or "none"]
exc_transfer_tx(tx, st0) ==
    Eval(st0, LAMBDA st :
        IF st.panicked THEN [state |-> st, err |-> "none"]
        ELSE IF ~MsgTransfer_decodes(tx.data)
             THEN [state |-> Panic(st), err |-> "none"]
        ELSE IF ~verify_sign(tx) THEN [state |-> st, err |-> "Other"]
        ELSE IF load_account_panics(st, tx.sender)
             THEN [state |-> Panic(st), err |-> "none"]
        ELSE IF tx.nonce # load_account(st, tx.sender).nonce + 1
             THEN [state |-> st, err |-> "InvalidTxNonce"]
        ELSE IF build = "debug" /\ add_overflows(get_value(tx), transfer_fee)
             THEN [state |-> Panic(st), err |-> "none"]
        ELSE IF wrapping_add(get_value(tx), transfer_fee)
                    > load_account(st, tx.sender).balance
             THEN [state |-> st, err |-> "BalanceNotEnough"]
        ELSE [state |-> transfer(inc_nonce(sub_balance(st, tx.sender, transfer_fee),
                                           tx.sender),
                                 tx.sender, get_to_address(tx), get_value(tx)),
              err |-> "none"])

\* the loop of Executor::exc_txs_in_block
RECURSIVE exc_txs(_, _, _)
exc_txs(txs, st, miner_addr) ==
    IF txs = <<>> THEN [state |-> st, err |-> "none"]
    ELSE Eval(exc_transfer_tx(Head(txs), st), LAMBDA r :
             IF r.err # "none" \/ r.state.panicked THEN r
             ELSE exc_txs(Tail(txs), add_balance(r.state, miner_addr, transfer_fee),
                          miner_addr))

\* Executor::exc_txs_in_block: [h |-> the root, kv |-> the backend after it,
\* err |-> the error returned or "none", panicked]
exc_txs_in_block(b, st, miner_addr) ==
    Eval(exc_txs(b.txs, st, miner_addr), LAMBDA r :
        IF r.err # "none" \/ r.state.panicked
        THEN [h |-> ZeroHash, kv |-> r.state.backend, err |-> r.err,
              panicked |-> r.state.panicked]
        ELSE Eval(Balance_commit(r.state), LAMBDA done :
                 [h |-> done.root_hash, kv |-> done.st.backend, err |-> "none",
                  panicked |-> done.st.panicked]))

--------------------------------------------------------------------------
(* The validator list (staking.rs), as far as genesis uses it *)

StatePrefix_Validator == 2

\* the key of the head of the validator list
head_key == Hash_from_bytes(StatePrefix_Validator)

map_key(addr) ==
    Blake2b256(<<"raw", Hash_from_bytes(addr), Hash_from_bytes(StatePrefix_Validator)>>)

\* bincode::serialize(&ListEntry) and its inverse
EncodeListEntry(entry) == <<"ListEntry", entry.pre, entry.next, entry.payload>>

DecodeListEntry(bytes) == [pre |-> bytes[2], next |-> bytes[3], payload |-> bytes[4]]

\* Staking::insert on a StateDB handle s over the backend
Staking_insert(s, backend, item) ==
    LET head == get_storage(s, backend, head_key)
        head_ref == head[1]
        entry == [pre |-> None, next |-> head, payload |-> item]
        with_item == set_storage(s, map_key(item.address), EncodeListEntry(entry))
        next == DecodeListEntry(get_storage(with_item, backend, head_ref)[1])
        with_next == set_storage(with_item, map_key(next.payload.address),
                         EncodeListEntry([next EXCEPT !.pre = Some(map_key(item.address))]))
    IN IF head = None
       THEN set_storage(with_item, head_key, map_key(item.address))
       ELSE set_storage(with_next, head_key, map_key(item.address))

\* Validator::create
Validator_create(addr) ==
    [address |-> addr, pubkey |-> <<>>, balance |-> 0, effective_balance |-> 0,
     activate_height |-> 0, exit_height |-> 0,
     deposit_queue |-> <<>>, unlocked_queue |-> <<>>]

\* Staking::insert panics on the unwrap of the entry the head names
Staking_insert_panics(s, backend, item) ==
    LET head == get_storage(s, backend, head_key)
        entry == [pre |-> None, next |-> head, payload |-> item]
        with_item == set_storage(s, map_key(item.address), EncodeListEntry(entry))
    IN head # None /\ get_storage(with_item, backend, head[1]) = None

\* Staking::delete panics on the unwrap of the entry pre or next names
Staking_delete_panics(s, backend, addr) ==
    LET encoded == get_storage(s, backend, map_key(addr))
        item == DecodeListEntry(encoded[1])
        relinked == IF item.pre # None
                    THEN set_storage(s, item.pre[1],
                             EncodeListEntry([DecodeListEntry(get_storage(s, backend, item.pre[1])[1])
                                                 EXCEPT !.next = item.next]))
                    ELSE s
    IN /\ encoded # None
       /\ \/ item.pre # None /\ get_storage(s, backend, item.pre[1]) = None
          \/ /\ item.next # None
             /\ ~(item.pre # None /\ get_storage(s, backend, item.pre[1]) = None)
             /\ get_storage(relinked, backend, item.next[1]) = None

\* Staking::delete on a StateDB handle s over the backend
Staking_delete(s, backend, addr) ==
    LET encoded == get_storage(s, backend, map_key(addr))
        item == DecodeListEntry(encoded[1])
        pre_node == DecodeListEntry(get_storage(s, backend, item.pre[1])[1])
        relinked == IF item.pre # None
                    THEN set_storage(s, item.pre[1],
                             EncodeListEntry([pre_node EXCEPT !.next = item.next]))
                    ELSE IF item.next # None
                         THEN set_storage(s, head_key, item.next[1])
                         ELSE remove_storage(s, head_key)
        next_node == DecodeListEntry(get_storage(relinked, backend, item.next[1])[1])
        backlinked == IF item.next # None
                      THEN set_storage(relinked, item.next[1],
                               EncodeListEntry([next_node EXCEPT !.pre = item.pre]))
                      ELSE relinked
    IN IF encoded = None THEN s
       ELSE remove_storage(backlinked, map_key(addr))

\* the loop of Staking::validator_set from next_ref, run for at most fuel
\* entries: [items, ends, panics]; ends is FALSE when the fuel ran out
RECURSIVE validator_walk(_, _, _, _)
validator_walk(s, backend, next_ref, fuel) ==
    IF next_ref = None THEN [items |-> <<>>, ends |-> TRUE, panics |-> FALSE]
    ELSE IF fuel = 0 THEN [items |-> <<>>, ends |-> FALSE, panics |-> FALSE]
    ELSE IF get_storage(s, backend, next_ref[1]) = None
         THEN [items |-> <<>>, ends |-> TRUE, panics |-> TRUE]
    ELSE \* one entry, then the rest
         CHOOSE r \in
           {[items |-> <<item.payload>> \o rest.items, ends |-> rest.ends,
             panics |-> rest.panics] :
              <<item, rest>> \in
                 {<<it, validator_walk(s, backend, it.next, fuel - 1)>> :
                     it \in {DecodeListEntry(get_storage(s, backend, next_ref[1])[1])}}} : TRUE

--------------------------------------------------------------------------
(* Genesis (genesis.rs) *)

GENESIS_TIME == 1597916633

ed_genesis_pub_key == "0xf3a87c2ea52bbc7cd764ddd7f947d93ce20d094872185049761ffb2652c09307"

to_genesis ==
    LET b == [header |-> [Header_default EXCEPT !.time = GENESIS_TIME],
              signs |-> <<>>, txs |-> <<>>,
              proofs |-> <<BlockProof_new(ed_genesis_pub_key)>>]
    IN [b EXCEPT !.header.tx_root = get_hash_from_txs(b.txs),
                 !.header.sign_root = get_hash_from_signs(b.signs)]

\* setup_allocation on the handle db over the backend: the allocation, a
\* commit, the validator, a commit: [root, kv]
setup_allocation(db, backend) ==
    LET funded == add_balance(Balance_new(db, backend), Alice, ALLOCATION_VALUE)
        first == Balance_commit(funded).st
        validator == [address |-> Alice, pubkey |-> ed_genesis_pub_key,
                      balance |-> 0, effective_balance |-> 0,
                      activate_height |-> 0, exit_height |-> 0,
                      deposit_queue |-> <<>>, unlocked_queue |-> <<>>]
        staked == Staking_insert(first.treedb, first.backend, validator)
        done == StateDB_commit(staked, first.backend)
    IN [root |-> done.s.state_root, kv |-> done.kv]

--------------------------------------------------------------------------
(* ChainDB (store.rs) *)

get_header_hash(db, num) ==
    IF num \in DOMAIN db.numbers THEN Some(db.numbers[num]) ELSE None

get_block(db, h) ==
    IF h \in DOMAIN db.blocks THEN Some(db.blocks[h]) ELSE None

get_block_by_number(db, num) ==
    IF get_header_hash(db, num) = None
    THEN None
    ELSE get_block(db, get_header_hash(db, num)[1])

head_block(db) == get_block(db, db.head)

\* mutant of write_header: the number index keeps only the new height
write_header_forgets(db, h) ==
    [db EXCEPT !.numbers = MapPut(EmptyMap, h.height, Header_hash(h)),
               !.headers = MapPut(@, Header_hash(h), h)]

write_header(db, h) ==
    [db EXCEPT !.numbers = MapPut(@, h.height, Header_hash(h)),
               !.headers = MapPut(@, Header_hash(h), h)]

write_block(db, block) ==
    [write_header(db, block.header) EXCEPT !.blocks = MapPut(@, Block_hash(block), block)]

write_head_hash(db, hash) == [db EXCEPT !.head = hash]

--------------------------------------------------------------------------
(* BlockChain and Validator (blockchain.rs) *)

\* BlockChain::setup_genesis: [db, kv]
setup_genesis(db, backend) ==
    LET alloc == setup_allocation(StateDB_from_existing(NULL_ROOT), backend)
        genesis == [to_genesis EXCEPT !.header.state_root = alloc.root]
    IN [db |-> write_head_hash(write_block(db, genesis), Block_hash(genesis)),
        kv |-> alloc.kv]

\* BlockChain::load
load(db, backend) ==
    IF get_block_by_number(db, 0) = None
    THEN setup_genesis(db, backend)
    ELSE [db |-> db, kv |-> backend]

state_at(root) == StateDB_from_existing(root)

current_block(db) == head_block(db)[1]

\* the hash it is given is not used
exits_block(db, h, num) == get_block_by_number(db, num) # None

check_previous(db, header) == get_block(db, header.parent_hash) # None

\* the executor run on the state at root, its result unwrapped: err is the
\* error the unwrap panicked with
apply_transactions(backend, root, b) ==
    Eval(exc_txs_in_block(b, Balance_new(state_at(root), backend), Address_default),
         LAMBDA r : [h |-> r.h, kv |-> r.kv, err |-> r.err,
                     panicked |-> r.panicked \/ r.err # "none"])

\* mutant of validate_block: the two roots are not compared
validate_block_unchecked(db, block) == "Ok"

validate_block(db, block) ==
    IF block.header.sign_root # get_hash_from_signs(block.signs) THEN "MismatchHash"
    ELSE IF block.header.tx_root # get_hash_from_txs(block.txs) THEN "MismatchHash"
    ELSE "Ok"

\* mutant of validate_header: the height is not compared
validate_header_any_height(db, header) ==
    IF get_block(db, header.parent_hash) = None THEN "UnknownAncestor"
    ELSE IF header.time <= get_block(db, header.parent_hash)[1].header.time
         THEN "InvalidBlockTime"
    ELSE "Ok"

validate_header(db, header) ==
    LET pre == get_block(db, header.parent_hash)
    IN IF pre = None THEN "UnknownAncestor"
       ELSE IF header.height # pre[1].header.height + 1 THEN "InvalidBlockHeight"
       ELSE IF header.time <= pre[1].header.time THEN "InvalidBlockTime"
       ELSE "Ok"

\* BlockChain::import_block: [result, err, db, kv]; result is "Ok", the
\* error returned, or "panic", and err the error a panic was raised with
import_block(db, backend, block) ==
    LET rejected(kind) == [result |-> kind, err |-> "none", db |-> db, kv |-> backend]
    IN Eval(current_block(db), LAMBDA current :
        IF exits_block(db, Block_hash(block), block.header.height)
        THEN rejected("KnownBlock")
        ELSE IF ~check_previous(db, block.header)
             THEN rejected("UnknownAncestor")
        ELSE IF block.header.parent_hash # Block_hash(current)
             THEN rejected("UnknownAncestor")
        ELSE IF validate_header(db, block.header) # "Ok"
             THEN rejected(validate_header(db, block.header))
        ELSE IF validate_block(db, block) # "Ok"
             THEN rejected(validate_block(db, block))
        ELSE Eval(apply_transactions(backend, current.header.state_root, block),
                  LAMBDA applied :
                 IF applied.panicked
                 THEN [result |-> "panic", err |-> applied.err, db |-> db,
                       kv |-> applied.kv]
                 ELSE IF block.header.state_root # applied.h
                      THEN [result |-> "InvalidState", err |-> "none", db |-> db,
                            kv |-> applied.kv]
                 ELSE [result |-> "Ok", err |-> "none",
                       db |-> write_head_hash(write_block(db, block), Block_hash(block)),
                       kv |-> applied.kv]))

--------------------------------------------------------------------------
(* The block builder (generator/src/epoch.rs) *)

SLOT_DURATION == 6

\* Builder::produce_block on the head: [block, kv, err, panicked]; the block
\* has no signature and no proof
produce_block(db, backend, txs, now) ==
    Eval(current_block(db), LAMBDA pre :
    Eval(Block_new(Header_default, txs, <<>>, <<>>), LAMBDA block :
    Eval(apply_transactions(backend, pre.header.state_root, block), LAMBDA applied :
        [block |-> [block EXCEPT !.header.parent_hash = Block_hash(pre),
                                 !.header.height = pre.header.height + 1,
                                 !.header.state_root = applied.h,
                                 !.header.time = now],
         kv |-> applied.kv,
         err |-> applied.err,
         panicked |-> applied.panicked])))

--------------------------------------------------------------------------
(* Spec: the chain manager of one node.  Blocks arrive from the network    *)
(* (ImportBlock) and the node proposes blocks from its pool (OnSlot).      *)

HeadBlock == current_block(chaindb)

HeadHeight == HeadBlock.header.height

\* the account of addr in the state of the head
HeadAccount(addr) ==
    load_account(Balance_new(state_at(HeadBlock.header.state_root), kv), addr)

\* a transfer of value from Alice to Bob, signed by Alice's key
Payment(nonce, method, value) ==
    Transaction_sign(
        Transaction_new(Alice, nonce, 1, 1, method, EncodeMsgTransfer(Bob, value)),
        ed_genesis_pub_key)

\* the transactions that arrive when the sender's next nonce is nonce: the
\* payment, and the payment with one field changed
TxVariants(nonce) ==
    {Payment(nonce, "balance.transfer", 1),
     Payment(nonce + 1, "balance.transfer", 1),
     Payment(nonce, "balance.transfer", ALLOCATION_VALUE),
     Payment(nonce, "balance.transfer", U128_MAX),
     Payment(nonce, "staking.validate", 1),
     Payment(nonce, "unknown.call", 1),
     [Payment(nonce, "balance.transfer", 1) EXCEPT !.sign_data[3] = ZeroHash],
     Transaction_sign(Transaction_new(Alice, nonce, 1, 1, "balance.transfer", <<>>),
                      ed_genesis_pub_key)}

CandidateTxLists ==
    LET nonce == HeadAccount(Alice).nonce + 1
    IN {<<>>}
       \cup {<<tx>> : tx \in TxVariants(nonce)}
       \cup {<<Payment(nonce, "balance.transfer", 1), tx>> :
                tx \in {Payment(nonce + 1, "balance.transfer", 1),
                        Payment(nonce, "balance.transfer", 1)}}

\* the block a peer builds on the head with txs
BlockOnHead(txs) ==
    LET b == Block_new(Header_default, txs, <<>>, <<>>)
    IN [b EXCEPT !.header.parent_hash = Block_hash(HeadBlock),
                 !.header.height = HeadHeight + 1,
                 !.header.time = HeadBlock.header.time + SLOT_DURATION,
                 !.header.state_root =
                     apply_transactions(kv, HeadBlock.header.state_root, b).h]

\* the block with the proposer's signature and proof
Sealed(b) ==
    [sign_block(ed_genesis_pub_key, b) EXCEPT
        !.proofs = <<BlockProof_new(ed_genesis_pub_key)>>]

\* the block with one header field changed
Defects(b) ==
    {[b EXCEPT !.header.height = HeadHeight + 2],
     [b EXCEPT !.header.height = HeadHeight],
     [b EXCEPT !.header.parent_hash = ZeroHash],
     [b EXCEPT !.header.parent_hash = HeadBlock.header.parent_hash],
     [b EXCEPT !.header.parent_hash = HeadBlock.header.parent_hash,
               !.header.height = HeadHeight],
     [b EXCEPT !.header.time = HeadBlock.header.time],
     [b EXCEPT !.header.tx_root = ZeroHash],
     [b EXCEPT !.header.sign_root = ZeroHash],
     [b EXCEPT !.header.state_root = ZeroHash]}

CandidateBlocks ==
    LET plain == {BlockOnHead(<<>>),
                  BlockOnHead(<<Payment(HeadAccount(Alice).nonce + 1,
                                        "balance.transfer", 1)>>)}
    IN {BlockOnHead(txs) : txs \in CandidateTxLists}
       \cup {Sealed(b) : b \in plain}
       \cup UNION {Defects(b) : b \in plain}

\* what the pool can hand to the builder: the pool decodes every
\* transaction it admits
PendingLists ==
    {txs \in CandidateTxLists : \A i \in 1..Len(txs) : MsgTransfer_decodes(txs[i].data)}

\* the slot clock is ahead of the time of the head
SlotTimes == {HeadBlock.header.time + SLOT_DURATION}

Init ==
    /\ build \in {"debug", "release"}
    /\ kv = load(NoChain, {}).kv
    /\ chaindb = load(NoChain, {}).db
    /\ node = "running"
    /\ last = [op |-> "load", result |-> "Ok", err |-> "none"]
    /\ nops = 0
    /\ sdb = StateDB_from_existing(NULL_ROOT)
    /\ pend = {}
    /\ pc = "idle"
    /\ ncommit = 0
    /\ shadow = NoContent
    /\ committed = (NULL_ROOT :> NoContent)
    /\ pre_kv = {}
    /\ new_nodes = {}
    /\ NetIdle

\* a peer's block is imported under the write lock of the chain; once the
\* lock is poisoned, taking it panics
ChainImportBlock(block) ==
    \E r \in {import_block(chaindb, kv, block)} :
       /\ HeadHeight < MaxHeight
       /\ IF node = "poisoned"
          THEN /\ last' = [op |-> "import_block", result |-> "panic", err |-> "none"]
               /\ UNCHANGED <<chaindb, kv, node>>
          ELSE /\ last' = [op |-> "import_block", result |-> r.result, err |-> r.err]
               /\ chaindb' = r.db
               /\ kv' = r.kv
               /\ node' = IF r.result = "panic" THEN "poisoned" ELSE node
       /\ UNCHANGED <<sdb, pend, pc, ncommit, shadow, committed, pre_kv, new_nodes,
                      build, nops>>

\* ChainImportBlock on a node whose network side and pool are left out
ImportBlock(block) == ChainImportBlock(block) /\ UNCHANGED netVars

\* EpochProposal::on_slot when the node is the proposer of the slot:
\* produce_block on the head, then insert_block under the write lock
ChainOnSlot(pending, now) ==
    \E made \in {produce_block(chaindb, kv, pending, now)} :
    \E r \in {import_block(chaindb, made.kv, made.block)} :
       /\ HeadHeight < MaxHeight
       /\ node = "running"
       /\ IF made.panicked
          THEN /\ last' = [op |-> "on_slot", result |-> "panic", err |-> made.err]
               /\ node' = "proposal_stopped"
               /\ kv' = made.kv
               /\ UNCHANGED chaindb
          ELSE /\ last' = [op |-> "on_slot", result |-> r.result, err |-> r.err]
               /\ chaindb' = r.db
               /\ kv' = r.kv
               /\ node' = IF r.result = "panic" THEN "poisoned" ELSE node
       /\ UNCHANGED <<sdb, pend, pc, ncommit, shadow, committed, pre_kv, new_nodes,
                      build, nops>>

\* ChainOnSlot with the pending transactions as an input
OnSlot(pending, now) == ChainOnSlot(pending, now) /\ UNCHANGED netVars

Next ==
    \/ \E block \in CandidateBlocks : ImportBlock(block)
    \/ \E pending \in PendingLists, now \in SlotTimes : OnSlot(pending, now)

Spec == Init /\ [][Next]_vars

--------------------------------------------------------------------------
(* Properties of the chain manager *)

\* the errors of BlockChainErrorKind
BlockChainErrorKind ==
    {"UnknownAncestor", "KnownBlock", "MismatchHash", "InvalidBlockProof",
     "InvalidBlockTime", "InvalidBlockHeight", "InvalidState", "InvalidAuthority"}

\* the errors of Executor::exc_transfer_tx
TxErrors == {"Other", "InvalidTxNonce", "BalanceNotEnough"}

\* the account of addr in the state at root
AccountAt(root, addr) == load_account(Balance_new(state_at(root), kv), addr)

\* C1: for every height n from 1 to the height of the head,
\* get_block_by_number(n) is a block of height n whose parent_hash is the hash
\* of get_block_by_number(n - 1).
C1_ChainIndex ==
    \A n \in 1..HeadHeight :
        /\ get_block_by_number(chaindb, n) # None
        /\ get_block_by_number(chaindb, n - 1) # None
        /\ get_block_by_number(chaindb, n)[1].header.height = n
        /\ get_block_by_number(chaindb, n)[1].header.parent_hash
              = Block_hash(get_block_by_number(chaindb, n - 1)[1])

\* the head is above genesis and an import was just rejected for its height
C1_Witness ==
    /\ HeadHeight >= 1
    /\ last.op = "import_block"
    /\ last.result = "InvalidBlockHeight"

\* C2: every block of the chain has the hash of its transaction list as
\* tx_root, and every block above genesis has as state_root the root the
\* executor returns for its transactions on the state_root of its parent.
C2_BlockRoots ==
    \A h \in DOMAIN chaindb.blocks :
        LET b == chaindb.blocks[h]
            parent == get_block(chaindb, b.header.parent_hash)
            run == exc_txs_in_block(b, Balance_new(state_at(parent[1].header.state_root), kv),
                                    Address_default)
        IN /\ b.header.tx_root = get_hash_from_txs(b.txs)
           /\ b.header.height >= 1 =>
                 /\ parent # None
                 /\ run.err = "none"
                 /\ ~run.panicked
                 /\ b.header.state_root = run.h

\* a block of two transactions is in the chain, on a parent above genesis
C2_Witness ==
    \E h \in DOMAIN chaindb.blocks :
        /\ chaindb.blocks[h].header.height >= 2
        /\ Len(chaindb.blocks[h].txs) = 2

\* C3: the import of a block that is not in the chain and whose parent_hash
\* is not the hash of the head returns UnknownAncestor and leaves the head
\* what it was.
C3_WrongParentRejected ==
    [][\A block \in CandidateBlocks :
          (/\ node # "poisoned"
           /\ get_block(chaindb, Block_hash(block)) = None
           /\ block.header.parent_hash # chaindb.head
           /\ ImportBlock(block))
          => (last'.result = "UnknownAncestor" /\ chaindb'.head = chaindb.head)]_vars

\* C4: an import that returns an error leaves the block index and the trie
\* node store what they were.
C4_RejectedUnchanged ==
    [][(last'.op = "import_block" /\ last'.result \in BlockChainErrorKind)
          => (chaindb' = chaindb /\ kv' = kv)]_vars

\* C5: the import of a block with a transaction that fails its signature,
\* nonce or balance check returns an error, leaves the node running, and
\* leaves the stores what they were.
C5_FailedTxRejected ==
    [][\A block \in CandidateBlocks :
          (/\ node # "poisoned"
           /\ exc_txs(block.txs,
                      Balance_new(state_at(HeadBlock.header.state_root), kv),
                      Address_default).err \in TxErrors
           /\ ImportBlock(block))
          => (/\ last'.result \in BlockChainErrorKind \cup TxErrors
              /\ node' = node
              /\ chaindb' = chaindb
              /\ kv' = kv)]_vars

\* C6: every block above genesis in the chain has a first proof and a first
\* signature item, and the item is the signature, by the key of the proof,
\* of the hash of the header (as it is, or as it was when it was signed).
C6_BlocksSigned ==
    \A h \in DOMAIN chaindb.blocks :
        LET b == chaindb.blocks[h]
            unsealed == [b.header EXCEPT !.sign_root = get_hash_from_signs(<<>>)]
        IN b.header.height >= 1 =>
              /\ Len(b.proofs) >= 1
              /\ Len(b.signs) >= 1
              /\ \/ Pubkey_verify(b.proofs[1][2], Header_hash(b.header), b.signs[1].signs)
                 \/ Pubkey_verify(b.proofs[1][2], Header_hash(unsealed), b.signs[1].signs)

\* C9: a block whose only transaction names a call other than
\* balance.transfer, staking.validate and staking.deposit leaves the account
\* of the receiver named in the data what it was in the state of the parent.
C9_UnknownCallIgnored ==
    \A h \in DOMAIN chaindb.blocks :
        LET b == chaindb.blocks[h]
            parent == get_block(chaindb, b.header.parent_hash)
        IN (/\ b.header.height >= 1
            /\ Len(b.txs) = 1
            /\ b.txs[1].call \notin {"balance.transfer", "staking.validate",
                                     "staking.deposit"})
           => AccountAt(b.header.state_root, Bob)
                 = AccountAt(parent[1].header.state_root, Bob)

--------------------------------------------------------------------------
(* SpecStaking: the validator list of Staking over one StateDB handle.     *)

\* the addresses the list is driven with
StakingAddrs == {Alice, Bob, Address_default}

InitStaking ==
    /\ kv = {}
    /\ sdb = StateDB_from_existing(NULL_ROOT)
    /\ build = "release"
    /\ node = "running"
    /\ last = NoCall
    /\ nops = 0
    /\ pend = {}
    /\ pc = "idle"
    /\ ncommit = 0
    /\ shadow = NoContent
    /\ committed = (NULL_ROOT :> NoContent)
    /\ pre_kv = {}
    /\ new_nodes = {}
    /\ chaindb = NoChain
    /\ NetIdle

\* Staking::insert of a new validator record for addr
StakingInsert(addr) ==
    /\ node = "running"
    /\ nops < MaxStakingOps
    /\ nops' = nops + 1
    /\ IF Staking_insert_panics(sdb, kv, Validator_create(addr))
       THEN /\ node' = "panicked"
            /\ last' = [op |-> "insert", result |-> "panic"]
            /\ UNCHANGED sdb
       ELSE /\ sdb' = Staking_insert(sdb, kv, Validator_create(addr))
            /\ last' = [op |-> "insert", result |-> "Ok"]
            /\ UNCHANGED node
    /\ UNCHANGED <<kv, pend, pc, ncommit, shadow, committed, pre_kv, new_nodes,
                   chaindb, build>>
    /\ UNCHANGED netVars

\* Staking::delete of addr
StakingDelete(addr) ==
    /\ node = "running"
    /\ nops < MaxStakingOps
    /\ nops' = nops + 1
    /\ IF Staking_delete_panics(sdb, kv, addr)
       THEN /\ node' = "panicked"
            /\ last' = [op |-> "delete", result |-> "panic"]
            /\ UNCHANGED sdb
       ELSE /\ sdb' = Staking_delete(sdb, kv, addr)
            /\ last' = [op |-> "delete", result |-> "Ok"]
            /\ UNCHANGED node
    /\ UNCHANGED <<kv, pend, pc, ncommit, shadow, committed, pre_kv, new_nodes,
                   chaindb, build>>
    /\ UNCHANGED netVars

\* StateDB::commit of the handle the list lives in
StakingCommit ==
    \E done \in {StateDB_commit(sdb, kv)} :
       /\ node = "running"
       /\ nops < MaxStakingOps
       /\ sdb.local_changes # EmptyMap
       /\ nops' = nops + 1
       /\ sdb' = done.s
       /\ kv' = done.kv
       /\ last' = [op |-> "commit", result |-> "Ok"]
       /\ UNCHANGED <<pend, pc, ncommit, shadow, committed, pre_kv, new_nodes,
                      chaindb, node, build>>
       /\ UNCHANGED netVars

NextStaking ==
    \/ \E addr \in StakingAddrs : StakingInsert(addr)
    \/ \E addr \in StakingAddrs : StakingDelete(addr)
    \/ StakingCommit

SpecStaking == InitStaking /\ [][NextStaking]_vars

\* the addresses whose list entry is stored
StoredValidators == {a \in StakingAddrs : get_storage(sdb, kv, map_key(a)) # None}

\* Staking::validator_set: a loop that reads more entries than there are
\* keys reads one of them twice and never ends
validator_set ==
    validator_walk(sdb, kv, get_storage(sdb, kv, head_key),
                   Cardinality(StakingAddrs) + 1)

\* C11: after any sequence of insert and delete calls, following the next
\* pointers from the head ends, and visits every stored entry exactly once.
C11_ListReachable ==
    node = "running" =>
       /\ validator_set.ends
       /\ ~validator_set.panics
       /\ Len(validator_set.items) = Cardinality(StoredValidators)
       /\ {validator_set.items[i].address : i \in 1..Len(validator_set.items)}
             = StoredValidators

--------------------------------------------------------------------------
(* The network side: range sync (network/src/sync), the status handshake   *)
(* and block gossip (handler_processor.rs).                                *)
(*                                                                         *)
(* The peers serve one chain, so a block is named by its height, and its   *)
(* parent is the block one below. A message the MessageProcessor forwards  *)
(* to the sync manager is handled in the step it arrives in.               *)

BLOCKS_PER_BATCH == 5

BATCH_BUFFER_SIZE == 5

INVALID_BATCH_LOOKUP_ATTEMPTS == 3

SLOT_IMPORT_TOLERANCE == 20

QUEUE_GOSSIP_BLOCK == 512

\* the network_id of status_message
NETWORK_ID == 31133

Min(a, b) == IF a < b THEN a ELSE b

Max(a, b) == IF a > b THEN a ELSE b

\* a - b < k in u64 arithmetic of a release build: below zero the difference
\* wraps to 2^64 - (b - a), which is not below k
wrapping_sub_lt(a, b, k) == a >= b /\ a - b < k

\* BlockChain::import_block of the block of the served chain at height, on a
\* head at local: Ok on the child of the head, KnownBlock at or below the
\* head (exits_block), UnknownAncestor above (check_previous)
chain_import(local, height) ==
    IF height <= local THEN [ok |-> FALSE, err |-> "KnownBlock", local |-> local]
    ELSE IF height = local + 1 THEN [ok |-> TRUE, err |-> "none", local |-> height]
    ELSE [ok |-> FALSE, err |-> "UnknownAncestor", local |-> local]

\* SyncNetworkContext::new, with what the node has sent so far
SyncNetworkContext_new ==
    [request_id |-> 0, downvoted |-> {}, disconnected |-> {}, statused |-> {},
     root_requests |-> {}]

\* SyncNetworkContext::send_rpc_request: the request takes the next id
send_rpc_request(n) == [n EXCEPT !.request_id = @ + 1]

\* SyncNetworkContext::downvote_peer: a Goodbye request and a Disconnect
downvote_peer(n, peer) == [send_rpc_request(n) EXCEPT !.downvoted = @ \cup {peer}]

blocks_by_hash_request(n, root) ==
    [send_rpc_request(n) EXCEPT !.root_requests = @ \cup {root}]

\* Batch::new; original_hash is left out: no code sets it
Batch_new(id, start_numer, end_number, peer_id) ==
    [id |-> id, start_numer |-> start_numer, end_number |-> end_number,
     original_peer |-> peer_id, current_peer |-> peer_id,
     retries |-> 0, reprocess_retries |-> 0, downloaded_blocks |-> <<>>]

SyncingChain_new(start_numer) ==
    [start_numer |-> start_numer, target_head_slot |-> 0,
     pending_batches |-> EmptyMap, completed_batches |-> <<>>,
     processed_batches |-> <<>>, peer_pool |-> {},
     to_be_downloaded_id |-> 1, to_be_processed_id |-> 1,
     state |-> "Stopped", current_processing_batch |-> None]

\* what a handler of the sync manager works on: the chain c, the network
\* context n, and the calls of spawn_block_processor it made
Ctx(c, n) == [c |-> c, n |-> n, spawn |-> <<>>]

current_processed_slot(c) ==
    c.start_numer + (c.to_be_processed_id - 1) * BLOCKS_PER_BATCH

\* mutant of peer_is_idle: every peer counts as idle
peer_is_idle_any(c, peer) == TRUE

peer_is_idle(c, peer) ==
    \A r \in DOMAIN c.pending_batches : c.pending_batches[r].current_peer # peer

\* the start of the batch get_next_batch makes
batch_start_numer(c) ==
    c.start_numer + (c.to_be_downloaded_id - 1) * BLOCKS_PER_BATCH + 1

\* get_next_batch returns None: the buffer is full or the target is passed
get_next_batch_is_none(c) ==
    \/ Len(c.completed_batches) + Cardinality(DOMAIN c.pending_batches)
          > BATCH_BUFFER_SIZE
    \/ batch_start_numer(c) > c.target_head_slot

\* get_next_batch when it returns a batch: [batch, c]
get_next_batch(c, peer_id) ==
    LET max_completed_id ==
            IF c.completed_batches = <<>> THEN 0
            ELSE c.completed_batches[Len(c.completed_batches)].id
    IN [batch |-> Batch_new(c.to_be_downloaded_id, batch_start_numer(c),
                            Min(batch_start_numer(c) + BLOCKS_PER_BATCH,
                                c.target_head_slot + 1),
                            peer_id),
        c |-> [c EXCEPT !.to_be_downloaded_id = Max(@ + 1, max_completed_id + 1)]]

\* send_batch of the batch get_next_batch makes for peer_id
send_batch(x, peer_id) ==
    Eval(get_next_batch(x.c, peer_id), LAMBDA got :
        [x EXCEPT !.c = [got.c EXCEPT !.pending_batches =
                            MapPut(@, x.n.request_id, got.batch)],
                  !.n = send_rpc_request(x.n)])

\* the loop of request_batches over send_range_request; get_next_peer takes
\* any idle peer (the pool is shuffled): the set of outcomes
RECURSIVE send_range_requests(_)
send_range_requests(x) ==
    IF get_next_batch_is_none(x.c) THEN {x}
    ELSE IF \A p \in x.c.peer_pool : ~peer_is_idle(x.c, p) THEN {x}
    ELSE UNION {send_range_requests(send_batch(x, p)) :
                   p \in {q \in x.c.peer_pool : peer_is_idle(x.c, q)}}

request_batches(x) ==
    IF x.c.state = "Syncing" THEN send_range_requests(x) ELSE {x}

\* process_batch: the batch becomes the current one, its blocks go to a
\* block processor thread
process_batch(x, batch) ==
    [x EXCEPT !.c.current_processing_batch =
                  Some([batch EXCEPT !.downloaded_blocks = <<>>]),
              !.spawn = Append(@, [id |-> batch.id, blocks |-> batch.downloaded_blocks])]

process_completed_batches(x) ==
    IF x.c.state # "Syncing" THEN x
    ELSE IF x.c.current_processing_batch # None THEN x
    ELSE IF /\ x.c.completed_batches # <<>>
            /\ x.c.completed_batches[1].id = x.c.to_be_processed_id
         THEN process_batch([x EXCEPT !.c.completed_batches = Tail(@)],
                            x.c.completed_batches[1])
    ELSE x

\* completed_batches.insert at the index binary_search of the batch id gives
insert_batch(batches, batch) ==
    LET index == Cardinality({i \in 1..Len(batches) : batches[i].id < batch.id})
    IN SubSeq(batches, 1, index) \o <<batch>> \o SubSeq(batches, index + 1, Len(batches))

\* the range check of handle_completed_batch
out_of_range(batch) ==
    /\ batch.downloaded_blocks # <<>>
    /\ \/ batch.start_numer > batch.downloaded_blocks[1]
       \/ batch.end_number < batch.downloaded_blocks[Len(batch.downloaded_blocks)]

\* handle_completed_batch: the set of outcomes
handle_completed_batch(x, batch) ==
    IF out_of_range(batch)
    THEN {[x EXCEPT !.n = downvote_peer(@, batch.current_peer),
                    !.c.to_be_processed_id = batch.id]}
    ELSE {process_completed_batches(y) :
             y \in request_batches([x EXCEPT !.c.completed_batches =
                                                insert_batch(@, batch)])}

\* on_block_response: a block is added to the pending batch of the request;
\* the end of the stream (None) completes the batch. The set of outcomes.
on_block_response(x, request_id, beacon_block) ==
    IF request_id \notin DOMAIN x.c.pending_batches THEN {x}
    ELSE IF beacon_block # None
         THEN {[x EXCEPT !.c.pending_batches[request_id].downloaded_blocks =
                            Append(@, beacon_block[1])]}
    ELSE handle_completed_batch(
             [x EXCEPT !.c.pending_batches =
                          [r \in DOMAIN @ \ {request_id} |-> @[r]]],
             x.c.pending_batches[request_id])

\* the responses of one stream, block by block, then its end
RECURSIVE on_block_responses(_, _, _)
on_block_responses(x, request_id, blocks) ==
    IF blocks = <<>> THEN on_block_response(x, request_id, None)
    ELSE UNION {on_block_responses(y, request_id, Tail(blocks)) :
                   y \in on_block_response(x, request_id, Some(Head(blocks)))}

\* the peers of the pool downvoted one after the other, the pool drained
downvote_pool(x) ==
    [x EXCEPT !.n = [@ EXCEPT !.request_id = @ + Cardinality(x.c.peer_pool),
                              !.downvoted = @ \cup x.c.peer_pool],
              !.c.peer_pool = {}]

\* on_batch_process_result: the set of [x, res], res "None" when the result
\* is not one this chain waits for
on_batch_process_result(x, batch_id, downloaded_blocks, result) ==
    IF x.c.current_processing_batch = None THEN {[x |-> x, res |-> "None"]}
    ELSE IF x.c.current_processing_batch[1].id # batch_id THEN {[x |-> x, res |-> "None"]}
    ELSE LET batch == [x.c.current_processing_batch[1]
                          EXCEPT !.downloaded_blocks = downloaded_blocks]
             uncertain == \/ downloaded_blocks = <<>>
                          \/ downloaded_blocks[Len(downloaded_blocks)]
                                # batch.end_number - 1
             done == [x EXCEPT
                        !.c.current_processing_batch = None,
                        !.c.to_be_processed_id = @ + 1,
                        !.c.processed_batches =
                            (IF downloaded_blocks # <<>> THEN <<>> ELSE @)
                               \o (IF uncertain THEN <<batch>> ELSE <<>>)]
             failed == [x EXCEPT !.c.current_processing_batch = None]
         IN IF result = "Success"
            THEN IF current_processed_slot(done.c) >= done.c.target_head_slot
                 THEN {[x |-> done, res |-> "RemoveChain"]}
                 ELSE {[x |-> process_completed_batches(y), res |-> "KeepChain"] :
                          y \in request_batches(done)}
            ELSE IF batch.reprocess_retries > INVALID_BATCH_LOOKUP_ATTEMPTS
                 THEN {[x |-> downvote_pool(failed), res |-> "RemoveChain"]}
                 ELSE {[x |-> failed, res |-> "KeepChain"]}

\* status_peers: a Status request to every peer of the pool
status_peers(x) ==
    [x EXCEPT !.n = [@ EXCEPT !.request_id = @ + Cardinality(x.c.peer_pool),
                              !.statused = @ \cup x.c.peer_pool]]

\* RangeSync::handle_block_process_result: the set of outcomes
handle_block_process_result(x, batch_id, downloaded_blocks, result) ==
    {IF r.res = "RemoveChain"
     THEN [status_peers(r.x) EXCEPT !.c.state = "Stopped"]
     ELSE r.x :
        r \in on_batch_process_result(x, batch_id, downloaded_blocks, result)}

\* SyncingChain::add_peer: the set of outcomes
SyncingChain_add_peer(x, peer_id) ==
    IF x.c.state = "Stopped"
    THEN {[x EXCEPT !.c.peer_pool = @ \cup {peer_id}]}
    ELSE request_batches([x EXCEPT !.c.peer_pool = @ \cup {peer_id}])

\* SyncingChain::start_syncing: the set of outcomes
start_syncing(x, local_finalized_number) ==
    LET reindexed == IF local_finalized_number > current_processed_slot(x.c)
                     THEN [x EXCEPT !.c.to_be_downloaded_id = 1,
                                    !.c.to_be_processed_id = 1,
                                    !.c.completed_batches = <<>>,
                                    !.c.processed_batches = <<>>]
                     ELSE x
    IN request_batches(process_completed_batches(
                          [reindexed EXCEPT !.c.state = "Syncing"]))

\* RangeSync::add_peer (remove_peer has an empty body): the set of outcomes
RangeSync_add_peer(x, peer_id, remote, local) ==
    UNION {start_syncing(y, local) :
              y \in SyncingChain_add_peer(
                       [x EXCEPT !.c.target_head_slot = remote.finalized_number],
                       peer_id)}

\* SyncManager::update_state
update_state(m, c) ==
    [m EXCEPT !.state = IF c.state = "Syncing" THEN "Syncing"
                        ELSE IF m.full_peers # {} THEN "Regular"
                        ELSE "Stalled"]

\* the first half of SyncManager::add_peer: the peer is a full peer when it
\* is within the tolerance; the second half is RangeSync::add_peer
add_full_peer(m, peer_id, remote, local) ==
    IF wrapping_sub_lt(remote.finalized_number, local, SLOT_IMPORT_TOLERANCE)
    THEN [m EXCEPT !.full_peers = @ \cup {peer_id}]
    ELSE m

\* MessageProcessor::process_status: "disconnect", "naive" or "useful"
process_status(status, local) ==
    IF status.network_id # NETWORK_ID THEN "disconnect"
    ELSE IF status.finalized_number < local THEN "naive"
    ELSE "useful"

\* SyncManager::add_unknown_block (pool.block_roots is never written):
\* [m, n]
add_unknown_block(m, n, block) ==
    IF m.parents # <<>> THEN [m |-> m, n |-> n]
    ELSE [m |-> [m EXCEPT !.parents = Append(@, block)],
          n |-> blocks_by_hash_request(n, block - 1)]

\* the blocks of pool.parents popped from the end and imported, errors
\* printed and passed over: the head after them
RECURSIVE import_parents(_, _)
import_parents(local, parents) ==
    IF parents = <<>> THEN local
    ELSE import_parents(chain_import(local, parents[Len(parents)]).local,
                        SubSeq(parents, 1, Len(parents) - 1))

\* SyncManager::blocks_by_root_response: [m, n, local]
blocks_by_root_response(m, n, local, block) ==
    IF block = None THEN [m |-> m, n |-> n, local |-> local]
    ELSE IF block[1] = local + 1
         THEN [m |-> [m EXCEPT !.parents = <<>>], n |-> n,
               local |-> import_parents(chain_import(local, block[1]).local, m.parents)]
    ELSE [m |-> [m EXCEPT !.parents = Append(@, block[1])],
          n |-> blocks_by_hash_request(n, block[1] - 1),
          local |-> local]

\* the lowest block of the queue
lowest(q) == CHOOSE h \in q : \A g \in q : h <= g

\* find is set for any block of the queue that is imported
imported_is_gossiped_any(height_low, height) == TRUE

\* on_block_gossip sets find when the block it imported is the gossiped one
imported_is_gossiped(height_low, height) == height_low = height

\* the loop of on_block_gossip over the queue, current_height being the
\* height read before the loop: [queue, local, orphan, find, broadcast],
\* orphan when the block is sent to the sync manager as OrphanBlock, find
\* the value the handler returns, broadcast the blocks given to
\* broadcast_block
RECURSIVE gossip_loop(_, _, _, _, _, _)
gossip_loop(q, local, current_height, height, find, sent) ==
    IF q = {}
    THEN [queue |-> q, local |-> local, orphan |-> FALSE,
          find |-> find, broadcast |-> sent]
    ELSE IF lowest(q) > current_height + 1
         THEN [queue |-> q, local |-> local,
               orphan |-> height > current_height + SLOT_IMPORT_TOLERANCE,
               find |-> find, broadcast |-> sent]
    ELSE IF lowest(q) = current_height + 1 /\ ~chain_import(local, lowest(q)).ok
         THEN [queue |-> q \ {lowest(q)}, local |-> local, orphan |-> FALSE,
               find |-> find, broadcast |-> sent]
    ELSE IF lowest(q) = current_height + 1
         THEN gossip_loop(q \ {lowest(q)}, chain_import(local, lowest(q)).local,
                          current_height, height,
                          find \/ imported_is_gossiped(lowest(q), height),
                          IF imported_is_gossiped(lowest(q), height) THEN sent
                          ELSE sent \cup {lowest(q)})
    ELSE gossip_loop(q \ {lowest(q)}, local, current_height, height, find, sent)

\* MessageProcessor::on_block_gossip in a release build, or with a block not
\* below the head: [queue, local, orphan, find, broadcast]
on_block_gossip(q, local, height) ==
    IF wrapping_sub_lt(height, local, QUEUE_GOSSIP_BLOCK)
    THEN gossip_loop(q \cup {height}, local, local, height, FALSE, {})
    ELSE [queue |-> q, local |-> local, orphan |-> FALSE,
          find |-> FALSE, broadcast |-> {}]

--------------------------------------------------------------------------
(* The steps of the network side. `last` keeps the message handled last   *)
(* and what the node knew when it came.                                    *)

\* the sync manager and the message processor of a node at the genesis
\* block: RangeSync::new, SyncManager state Stalled, an empty gossip queue
InitNet ==
    /\ kv = {}
    /\ sdb = StateDB_from_existing(NULL_ROOT)
    /\ node = "running"
    /\ last = NoCall
    /\ nops = 0
    /\ pend = {}
    /\ pc = "idle"
    /\ ncommit = 0
    /\ shadow = NoContent
    /\ committed = (NULL_ROOT :> NoContent)
    /\ pre_kv = {}
    /\ new_nodes = {}
    /\ chaindb = NoChain
    /\ local_height = 0
    /\ rs = SyncingChain_new(0)
    /\ mgr = [state |-> "Stalled", full_peers |-> {}, parents |-> <<>>]
    /\ net = SyncNetworkContext_new
    /\ workers = {}
    /\ chan = <<>>
    /\ queue = {}
    /\ handed = <<>>
    /\ txpool = None
    /\ ended = {}
    /\ slots = None

\* the status_message of a node of this network with its head at height
status_message(height) ==
    [network_id |-> NETWORK_ID, genesis_hash |-> "genesis", finalized_number |-> height]

\* the chain and the network context a handler leaves, and the block
\* processor threads it spawned
Handled(x) ==
    /\ rs' = x.c
    /\ net' = x.n
    /\ workers' = workers \cup
          {[n |-> Len(handed) + i, id |-> x.spawn[i].id, todo |-> x.spawn[i].blocks,
            downloaded_blocks |-> x.spawn[i].blocks, imported |-> 0,
            failed |-> FALSE] : i \in 1..Len(x.spawn)}
    /\ handed' = handed \o [i \in 1..Len(x.spawn) |-> x.spawn[i].id]

\* a Status of a peer arrives (on_status_request, on_status_response):
\* process_status, and for a useful peer SyncManager::add_peer; limit bounds
\* the messages of the run
OnStatus(peer_id, status, limit) ==
    /\ node = "running"
    /\ nops < limit
    /\ nops' = nops + 1
    /\ last' = [op |-> "Status",
                result |-> [peer |-> peer_id, status |-> status, local |-> local_height]]
    /\ \E verdict \in {process_status(status, local_height)} :
          IF verdict = "disconnect"
          THEN /\ net' = [net EXCEPT !.disconnected = @ \cup {peer_id}]
               /\ UNCHANGED <<rs, mgr, workers, handed>>
          ELSE IF verdict = "naive"
          THEN UNCHANGED <<rs, mgr, net, workers, handed>>
          ELSE \E x \in RangeSync_add_peer(Ctx(rs, net), peer_id, status, local_height) :
                  /\ Handled(x)
                  /\ mgr' = update_state(add_full_peer(mgr, peer_id, status, local_height),
                                         x.c)
    /\ UNCHANGED <<local_height, chan, queue, node, stateVars, chaindb, build, txpool, ended, slots>>

\* the blocks a peer with its head at head sends for the request of batch:
\* on_blocks_by_range_request
served_blocks(batch, head) ==
    LET count == Min(BLOCKS_PER_BATCH, batch.end_number - batch.start_numer)
        upto == Min(batch.start_numer + count - 1, head)
    IN [i \in 1..(IF upto < batch.start_numer THEN 0 ELSE upto - batch.start_numer + 1)
           |-> batch.start_numer + i - 1]

\* the stream of BlocksByRange responses to request_id arrives, blocks and
\* then the end of the stream: RangeSync::blocks_by_range_response for each
OnBlocksByRange(request_id, blocks) ==
    /\ node = "running"
    /\ request_id \in DOMAIN rs.pending_batches
    /\ request_id \notin ended
    /\ last' = [op |-> "BlocksByRange",
                result |-> [request_id |-> request_id,
                            batch |-> rs.pending_batches[request_id], blocks |-> blocks]]
    /\ \E x \in on_block_responses(Ctx(rs, net), request_id, blocks) :
          /\ Handled(x)
          /\ mgr' = update_state(mgr, x.c)
    /\ UNCHANGED <<local_height, chan, queue, nops, node, stateVars, chaindb, build, txpool, ended, slots>>

\* a block processor thread imports its next block (process_blocks); an
\* error of import_block ends the loop
WorkerImport(w) ==
    /\ node = "running"
    /\ w \in workers
    /\ w.todo # <<>>
    /\ \E r \in {chain_import(local_height, Head(w.todo))} :
          /\ local_height' = r.local
          /\ workers' = (workers \ {w}) \cup
                {IF r.ok THEN [w EXCEPT !.todo = Tail(@), !.imported = @ + 1]
                 ELSE [w EXCEPT !.todo = <<>>, !.failed = TRUE]}
    /\ UNCHANGED <<rs, mgr, net, chan, queue, handed, last, nops, node, stateVars, chaindb, build, txpool, ended, slots>>

\* the result of process_blocks, which is Ok(()) on every path
process_blocks_result(w) == "Success"

\* the thread sends BatchProcessed and ends (spawn_block_processor)
WorkerReport(w) ==
    /\ node = "running"
    /\ w \in workers
    /\ w.todo = <<>>
    /\ workers' = workers \ {w}
    /\ chan' = Append(chan, [batch_id |-> w.id, downloaded_blocks |-> w.downloaded_blocks,
                             result |-> process_blocks_result(w),
                             imported |-> w.imported, failed |-> w.failed])
    /\ UNCHANGED <<local_height, rs, mgr, net, queue, handed, last, nops, node,
                   stateVars, chaindb, build, txpool, ended, slots>>

\* SyncManager::poll takes a BatchProcessed message
OnBatchProcessed ==
    /\ node = "running"
    /\ chan # <<>>
    /\ chan' = Tail(chan)
    /\ last' = [op |-> "BatchProcessed",
                result |-> [msg |-> Head(chan), before |-> rs, downvoted |-> net.downvoted]]
    /\ \E x \in handle_block_process_result(Ctx(rs, net), Head(chan).batch_id,
                                            Head(chan).downloaded_blocks, Head(chan).result) :
          /\ Handled(x)
          /\ mgr' = update_state(mgr, x.c)
    /\ UNCHANGED <<local_height, queue, nops, node, stateVars, chaindb, build, txpool, ended, slots>>

\* a block is gossiped to the node: on_block_gossip, and for an OrphanBlock
\* SyncManager::add_unknown_block. A debug build panics on the subtraction
\* when the block is below the head. handle_gossip forwards the message
\* when on_block_gossip returns true (forward). limit bounds the messages of
\* the run.
OnBlockGossip(height, limit) ==
    /\ node = "running"
    /\ nops < limit
    /\ nops' = nops + 1
    /\ IF build = "debug" /\ height < local_height
       THEN /\ node' = "panicked"
            /\ last' = [op |-> "BlockGossip",
                        result |-> [height |-> height, local |-> local_height,
                                    forward |-> FALSE, broadcast |-> {}]]
            /\ UNCHANGED <<local_height, queue, mgr, net>>
       ELSE \E g \in {on_block_gossip(queue, local_height, height)} :
               /\ node' = node
               /\ last' = [op |-> "BlockGossip",
                           result |-> [height |-> height, local |-> local_height,
                                       forward |-> g.find, broadcast |-> g.broadcast]]
               /\ queue' = g.queue
               /\ local_height' = g.local
               /\ \E a \in {IF g.orphan THEN add_unknown_block(mgr, net, height)
                            ELSE [m |-> mgr, n |-> net]} :
                     /\ mgr' = (IF g.orphan THEN update_state(a.m, rs) ELSE a.m)
                     /\ net' = a.n
    /\ UNCHANGED <<rs, workers, chan, handed, stateVars, chaindb, build, txpool, ended, slots>>

\* the block a peer sends for the root of the block at height: the parent
\* hash of the genesis block is the root of no block
block_by_root(height) == IF height >= 0 THEN Some(height) ELSE None

\* the response to the BlocksByRoot request for root arrives
OnBlocksByRoot(root) ==
    /\ node = "running"
    /\ root \in net.root_requests
    /\ last' = [op |-> "BlocksByRoot", result |-> [root |-> root, local |-> local_height]]
    /\ \E a \in {blocks_by_root_response(mgr, [net EXCEPT !.root_requests = @ \ {root}],
                                         local_height, block_by_root(root))} :
          /\ mgr' = update_state(a.m, rs)
          /\ net' = a.n
          /\ local_height' = a.local
    /\ UNCHANGED <<rs, workers, chan, queue, handed, nops, node, stateVars, chaindb, build, txpool, ended, slots>>

--------------------------------------------------------------------------
(* Range sync from honest peers: every peer is on the chain of the node,  *)
(* has its head at RemoteHead and answers a request with the blocks asked  *)
(* for; the block after the head of the node can be gossiped meanwhile.    *)

SyncPeers == {"p1", "p2"}

InitSync ==
    /\ InitNet
    /\ build = "release"

NextSync ==
    \/ \E p \in SyncPeers : OnStatus(p, status_message(RemoteHead), MaxSyncEvents)
    \/ \E r \in DOMAIN rs.pending_batches :
          OnBlocksByRange(r, served_blocks(rs.pending_batches[r], RemoteHead))
    \/ \E w \in workers : WorkerImport(w)
    \/ \E w \in workers : WorkerReport(w)
    \/ OnBatchProcessed
    \/ local_height < RemoteHead /\ OnBlockGossip(local_height + 1, MaxSyncEvents)

SpecSync == InitSync /\ [][NextSync]_vars

\* C12: range sync from honest peers: every batch a block processor reports
\* as processed has moved the head of the node up by BLOCKS_PER_BATCH blocks.
C12_HeadAdvancesPerBatch ==
    \A i \in 1..Len(chan) :
        chan[i].result = "Success" => chan[i].imported = BLOCKS_PER_BATCH

\* C13: range sync from honest peers: no step lowers to_be_processed_id.
C13_CursorNeverDecreases ==
    [][rs'.to_be_processed_id >= rs.to_be_processed_id]_vars

\* the ids in handed go strictly upwards
StrictlyAscending(ids) == \A i \in 1..Len(ids) - 1 : ids[i] < ids[i + 1]

\* C14: the batches given to the block processor go in strictly ascending
\* batch id, and at most one block processor runs at a time.
C14_AscendingOneAtATime ==
    /\ StrictlyAscending(handed)
    /\ Cardinality(workers) <= 1

\* the second half of C14 alone: at most one block processor at a time
OneProcessorAtATime == Cardinality(workers) <= 1

--------------------------------------------------------------------------
(* The handshake: six peers send a Status, of this network or another one, *)
(* of this chain or one with another genesis block, near the node or far   *)
(* ahead of it; the node is at the genesis block.                          *)

ManyPeers == {"p1", "p2", "p3", "p4", "p5", "p6"}

\* the Status messages a peer can send: four peers are far ahead, p5 is far
\* ahead or near, p6 is far ahead and of this chain, of a chain with another
\* genesis block, or of another network
PeerStatuses(peer_id) ==
    {status_message(FarHead)}
    \cup (IF peer_id = "p5" THEN {status_message(SLOT_IMPORT_TOLERANCE - 1)} ELSE {})
    \cup (IF peer_id = "p6"
          THEN {[status_message(FarHead) EXCEPT !.genesis_hash = "other genesis"],
                [status_message(FarHead) EXCEPT !.network_id = 1]}
          ELSE {})

InitPeers ==
    /\ InitNet
    /\ build = "release"

NextPeers ==
    \E p \in ManyPeers : \E s \in PeerStatuses(p) : OnStatus(p, s, MaxStatusEvents)

SpecPeers == InitPeers /\ [][NextPeers]_vars

\* C15: at most BATCH_BUFFER_SIZE batches are in flight, however many peers
\* the pool has.
C15_BufferBound ==
    Cardinality(DOMAIN rs.pending_batches) <= BATCH_BUFFER_SIZE

\* the step handles a Status message
StatusStep == nops' = nops + 1 /\ last'.op = "Status"

\* C18: a Status with another network_id or another genesis_hash gets its
\* peer disconnected, and the step adds the peer neither to the pool of the
\* range sync nor to the full peers.
C18_MismatchDisconnects ==
    [][(/\ StatusStep
        /\ \/ last'.result.status.network_id # NETWORK_ID
           \/ last'.result.status.genesis_hash # status_message(0).genesis_hash)
       => /\ last'.result.peer \in net'.disconnected
          /\ rs'.peer_pool = rs.peer_pool
          /\ mgr'.full_peers = mgr.full_peers]_vars

\* C19: a useful peer within SLOT_IMPORT_TOLERANCE of the head becomes a
\* full peer and the step does not add it to the pool of the range sync; a
\* useful peer further ahead joins the pool and is no full peer.
C19_FullPeerOrRangeSync ==
    [][(/\ StatusStep
        /\ process_status(last'.result.status, last'.result.local) = "useful")
       => IF last'.result.status.finalized_number - last'.result.local
                < SLOT_IMPORT_TOLERANCE
          THEN /\ last'.result.peer \in mgr'.full_peers
               /\ rs'.peer_pool = rs.peer_pool
          ELSE /\ last'.result.peer \in rs'.peer_pool
               /\ mgr'.full_peers = mgr.full_peers]_vars

--------------------------------------------------------------------------
(* Range sync from peers that may answer a request with other blocks than  *)
(* the ones asked for.                                                     *)

\* the answers of a peer to the request of batch: the blocks asked for; one
\* block more, at end_number; a block above the range between two blocks of
\* the range; the block below the range first; no block at all
Responses(batch) ==
    {served_blocks(batch, RemoteHead),
     Append(served_blocks(batch, RemoteHead), batch.end_number),
     <<batch.start_numer, batch.end_number + 2, batch.start_numer + 1>>,
     <<batch.start_numer - 1>> \o served_blocks(batch, RemoteHead),
     <<>>}

InitFaulty ==
    /\ InitNet
    /\ build = "release"

NextFaulty ==
    \/ \E p \in SyncPeers : OnStatus(p, status_message(RemoteHead), MaxFaultyEvents)
    \/ \E r \in DOMAIN rs.pending_batches :
          \E blocks \in Responses(rs.pending_batches[r]) : OnBlocksByRange(r, blocks)
    \/ \E w \in workers : WorkerImport(w)
    \/ \E w \in workers : WorkerReport(w)
    \/ OnBatchProcessed

SpecFaulty == InitFaulty /\ [][NextFaulty]_vars

\* the batches a syncing chain holds
batches_of(c) ==
    {c.pending_batches[r] : r \in DOMAIN c.pending_batches}
    \cup {c.completed_batches[i] : i \in 1..Len(c.completed_batches)}
    \cup {c.processed_batches[i] : i \in 1..Len(c.processed_batches)}
    \cup {c.current_processing_batch[i] : i \in 1..Len(c.current_processing_batch)}

\* C16: when the result of a batch whose processing failed is handled, the
\* failure is counted in reprocess_retries of the batch, or the chain is
\* dropped with every peer of its pool downvoted.
C16_FailureCounted ==
    [][(/\ chan # <<>>
        /\ chan' = Tail(chan)
        /\ Head(chan).failed)
       => \/ \E b \in batches_of(rs') :
                b.id = Head(chan).batch_id /\ b.reprocess_retries >= 1
          \/ /\ rs'.state = "Stopped"
             /\ rs.peer_pool \subseteq net'.downvoted]_vars

\* C17: a BlocksByRange answer with a block outside [start_numer, end_number)
\* of its batch gets the peer downvoted, and the batch goes neither to the
\* completed batches nor to a block processor.
C17_OutOfRangeRejected ==
    [][(/\ last' # last
        /\ last'.op = "BlocksByRange"
        /\ \E i \in 1..Len(last'.result.blocks) :
              \/ last'.result.blocks[i] < last'.result.batch.start_numer
              \/ last'.result.blocks[i] >= last'.result.batch.end_number)
       => /\ last'.result.batch.current_peer \in net'.downvoted
          /\ rs'.completed_batches = rs.completed_batches
          /\ workers' = workers]_vars

--------------------------------------------------------------------------
(* Block gossip: blocks of the chain arrive at, above and below the head of *)
(* the node, and the BlocksByRoot requests of the node are answered.        *)

\* the heights of the blocks gossiped to a node with its head at local
GossipHeights(local) ==
    {local + 1, local + 2, local + SLOT_IMPORT_TOLERANCE + 1,
     local + QUEUE_GOSSIP_BLOCK} \cup (IF local > 0 THEN {local - 1} ELSE {})

InitGossip ==
    /\ InitNet
    /\ build \in {"debug", "release"}

NextGossip ==
    \/ \E h \in GossipHeights(local_height) : OnBlockGossip(h, MaxGossipEvents)
    \/ \E b \in net.root_requests : OnBlocksByRoot(b)

SpecGossip == InitGossip /\ [][NextGossip]_vars

\* C20: a gossiped block above the child of the head and less than
\* QUEUE_GOSSIP_BLOCK above the head is put into the queue, and a BlocksByRoot
\* request for its parent is sent.
C20_OrphanQueuedAndRequested ==
    [][(/\ nops' = nops + 1
        /\ last'.op = "BlockGossip"
        /\ last'.result.height > last'.result.local + 1
        /\ last'.result.height - last'.result.local < QUEUE_GOSSIP_BLOCK)
       => /\ last'.result.height \in queue'
          /\ (last'.result.height - 1) \in net'.root_requests]_vars

\* the gossiped and the downloaded blocks that wait for their parent
Waiting == queue \cup {mgr.parents[i] : i \in 1..Len(mgr.parents)}

\* C21: when a step imports blocks, the waiting blocks that connect to the
\* chain go into the chain with them: the child of the new head does not
\* stay behind in the gossip queue or among the downloaded parents.
C21_ChildrenFlushed ==
    [][local_height' > local_height => (local_height' + 1) \notin Waiting']_vars

--------------------------------------------------------------------------
(* The transaction pool (pool/src/tx_pool.rs) with the chain manager: the  *)
(* pool is fed by the RPC and by gossip, the proposer builds blocks from   *)
(* its pending transactions, and blocks of peers are imported.             *)

\* 500 in the source; the model runs with a small pool
MAX_BLOCK_TX == 1

\* 2048 in the source
MAX_QUEUE_TX == 1

TxPoolManager_new ==
    [pending |-> EmptyMap, pool |-> EmptyMap, ordered_queue |-> <<>>, sent |-> {}]

\* HashMap::remove
MapRemove(map, k) == [x \in DOMAIN map \ {k} |-> map[x]]

\* TxPoolManager::validate_tx on the state of the head; get_value panics on
\* data that is no MsgTransfer
validate_tx(tx) ==
    IF ~MsgTransfer_decodes(tx.data) THEN "panic"
    ELSE IF HeadAccount(tx.sender).balance < get_value(tx) THEN "not sufficient funds"
    ELSE IF HeadAccount(tx.sender).nonce + 1 # tx.nonce THEN "invalid nonce"
    ELSE "Ok"

\* TxPoolManager::add_tx of a transaction validate_tx accepts
add_tx(p, tx) == [p EXCEPT !.pending = MapPut(@, Transaction_hash(tx), tx)]

\* BinaryHeap::push; the heap is kept as the sequence of its entries in the
\* order of their prices
heap_push(heap, entry) ==
    LET n == Cardinality({i \in 1..Len(heap) : heap[i].price <= entry.price})
    IN SubSeq(heap, 1, n) \o <<entry>> \o SubSeq(heap, n + 1, Len(heap))

\* the entries BinaryHeap::pop can give: PriorityRef orders by the price
\* reversed, the greatest entry is one with the lowest price
heap_tops(heap) ==
    {i \in 1..Len(heap) : \A j \in 1..Len(heap) : heap[i].price <= heap[j].price}

\* the sequence without its i-th element
RemoveAt(s, i) == SubSeq(s, 1, i - 1) \o SubSeq(s, i + 1, Len(s))

\* TxPoolManager::pop_back: the set of [p, removed, panicked]; it panics on
\* an entry of the heap that is in neither map
pop_back(p) ==
    IF p.ordered_queue = <<>>
    THEN {[p |-> p, removed |-> None, panicked |-> FALSE]}
    ELSE {LET h == p.ordered_queue[i].tx_hash
              q == [p EXCEPT !.ordered_queue = RemoveAt(@, i)]
          IN IF h \in DOMAIN p.pool
             THEN [p |-> [q EXCEPT !.pool = MapRemove(@, h)],
                   removed |-> Some(h), panicked |-> FALSE]
             ELSE IF h \in DOMAIN p.pending
             THEN [p |-> [q EXCEPT !.pending = MapRemove(@, h)],
                   removed |-> Some(h), panicked |-> FALSE]
             ELSE [p |-> q, removed |-> None, panicked |-> TRUE]
          : i \in heap_tops(p.ordered_queue)}

\* the pool is over its limits: insert_tx makes room
over_limit(p) ==
    Cardinality(DOMAIN p.pending) + Cardinality(DOMAIN p.pool)
        > MAX_BLOCK_TX + MAX_QUEUE_TX

\* the second half of insert_tx: the transaction goes to the queue when
\* pending is over the block limit, and its price to the heap
place_tx(p, tx) ==
    [(IF Cardinality(DOMAIN p.pending) > MAX_BLOCK_TX
      THEN [p EXCEPT !.pool = MapPut(@, Transaction_hash(tx), tx)]
      ELSE [p EXCEPT !.pending = MapPut(@, Transaction_hash(tx), tx)])
     EXCEPT !.ordered_queue =
                heap_push(@, [tx_hash |-> Transaction_hash(tx), price |-> tx.gas_price])]

\* TxPoolManager::insert_tx of a transaction validate_tx accepts: the set
\* of [p, panicked]
insert_tx(p, tx) ==
    LET dequeue(q, removed) ==
            IF removed = None THEN q
            ELSE IF removed[1] \in DOMAIN q.pending
                 THEN [q EXCEPT !.pending = MapRemove(@, removed[1])]
            ELSE [q EXCEPT !.pool = MapRemove(@, removed[1])]
    IN IF over_limit(p)
       THEN {IF r.panicked THEN [p |-> r.p, panicked |-> TRUE]
             ELSE [p |-> place_tx(dequeue(r.p, r.removed), tx), panicked |-> FALSE] :
                r \in pop_back(p)}
       ELSE {[p |-> place_tx(p, tx), panicked |-> FALSE]}

\* TxPoolManager::reset_pool at the state of the head, the block b
reset_pool(p, db, backend) ==
    LET root == current_block(db).header.state_root
        keep == {h \in DOMAIN p.pending :
                    p.pending[h].nonce >
                       load_account(Balance_new(state_at(root), backend),
                                    p.pending[h].sender).nonce}
    IN [p EXCEPT !.pending = [h \in keep |-> p.pending[h]]]

\* TxPoolManager::get_pending: the values of the map in any order
get_pending(p) ==
    {[i \in 1..Cardinality(DOMAIN p.pending) |-> p.pending[f[i]]] :
        f \in {g \in [1..Cardinality(DOMAIN p.pending) -> DOMAIN p.pending] :
                  \A i, j \in DOMAIN g : i # j => g[i] # g[j]}}

\* a transfer of value from Alice to Bob at a gas price, signed by Alice
PoolTx(nonce, price, value) ==
    Transaction_sign(
        Transaction_new(Alice, nonce, price, 1, "balance.transfer",
                        EncodeMsgTransfer(Bob, value)),
        ed_genesis_pub_key)

\* the transactions gossiped to the node: transfers of 1 with the next nonce
\* of the sender at two prices, one with a later nonce, one of more than the
\* sender has, one that does not decode
GossipTxs ==
    LET nonce == HeadAccount(Alice).nonce + 1
    IN {PoolTx(nonce, 1, 1), PoolTx(nonce, 2, 1), PoolTx(nonce + 1, 1, 1),
        PoolTx(nonce, 1, HeadAccount(Alice).balance + 1),
        Transaction_sign(Transaction_new(Alice, nonce, 1, 1, "balance.transfer", <<>>),
                         ed_genesis_pub_key)}

\* the transactions insert_tx is called with: transfers of 1 with the next
\* nonce of the sender at every price
InsertTxs ==
    {PoolTx(HeadAccount(Alice).nonce + 1, price, 1) : price \in 1..MaxPrice}

\* AccountManager send_transaction (rpc/src/api/account.rs): the RPC builds
\* the transfer at gas price 1000 with the nonce the pool gives, add_tx, and
\* publish_transaction when the pool took it
SendTransaction(value) ==
    /\ node = "running"
    /\ nops < MaxPoolOps
    /\ nops' = nops + 1
    /\ \E tx \in {Transaction_sign(
                     Transaction_new(Alice, HeadAccount(Alice).nonce + 1, 1000, 1000,
                                     "balance.transfer", EncodeMsgTransfer(Bob, value)),
                     ed_genesis_pub_key)} :
       \E v \in {validate_tx(tx)} :
          /\ last' = [op |-> "send_transaction", result |-> v, err |-> "none", tx |-> tx]
          /\ txpool' = IF v = "Ok" THEN [add_tx(txpool, tx) EXCEPT !.sent = @ \cup {tx}]
                       ELSE txpool
    /\ UNCHANGED <<stateVars, chaindb, node, build, syncVars>>

\* a transaction is gossiped to the node: handle_gossip, which drops what
\* on_transaction_gossip returns
OnTransactionGossip(tx) ==
    /\ node = "running"
    /\ nops < MaxPoolOps
    /\ nops' = nops + 1
    /\ \E v \in {validate_tx(tx)} :
          /\ last' = [op |-> "transaction_gossip", result |-> v, err |-> "none", tx |-> tx]
          /\ txpool' = IF v = "Ok" THEN add_tx(txpool, tx) ELSE txpool
          /\ node' = IF v = "panic" THEN "panicked" ELSE node
    /\ UNCHANGED <<stateVars, chaindb, build, syncVars>>

\* TxPoolManager::insert_tx is called with tx
InsertTx(tx) ==
    /\ node = "running"
    /\ nops < MaxPoolOps
    /\ nops' = nops + 1
    /\ \E v \in {validate_tx(tx)} :
          IF v = "Ok"
          THEN \E r \in insert_tx(txpool, tx) :
                  /\ last' = [op |-> "insert_tx",
                              result |-> IF r.panicked THEN "panic" ELSE v,
                              err |-> "none", tx |-> tx]
                  /\ txpool' = r.p
                  /\ node' = IF r.panicked THEN "panicked" ELSE node
          ELSE /\ last' = [op |-> "insert_tx", result |-> v, err |-> "none", tx |-> tx]
               /\ txpool' = txpool
               /\ node' = IF v = "panic" THEN "panicked" ELSE node
    /\ UNCHANGED <<stateVars, chaindb, build, syncVars>>

\* EpochProposal::on_slot with the pool: the block is built from
\* get_pending, and reset_pool follows when insert_block took the block
PoolOnSlot(now) ==
    /\ HeadHeight < MaxPoolHeight
    /\ \E pending \in get_pending(txpool) : ChainOnSlot(pending, now)
    /\ txpool' = IF last'.result = "Ok" THEN reset_pool(txpool, chaindb', kv')
                 ELSE txpool
    /\ UNCHANGED syncVars

\* the block of a peer is gossiped and imported (import_block of
\* handler_processor.rs): the pool is not told
PoolImportBlock(block) ==
    /\ node = "running"
    /\ HeadHeight < MaxPoolHeight
    /\ ChainImportBlock(block)
    /\ UNCHANGED netVars

\* the blocks of peers: on the head, empty or with one transaction of the
\* next nonce
PeerBlocks ==
    {BlockOnHead(<<>>)}
    \cup {BlockOnHead(<<PoolTx(HeadAccount(Alice).nonce + 1, 1, 1)>>)}

InitPool ==
    /\ build = "release"
    /\ kv = load(NoChain, {}).kv
    /\ chaindb = load(NoChain, {}).db
    /\ node = "running"
    /\ last = [op |-> "load", result |-> "Ok", err |-> "none"]
    /\ nops = 0
    /\ sdb = StateDB_from_existing(NULL_ROOT)
    /\ pend = {}
    /\ pc = "idle"
    /\ ncommit = 0
    /\ shadow = NoContent
    /\ committed = (NULL_ROOT :> NoContent)
    /\ pre_kv = {}
    /\ new_nodes = {}
    /\ local_height = 0
    /\ rs = None
    /\ mgr = None
    /\ net = None
    /\ workers = {}
    /\ chan = <<>>
    /\ queue = {}
    /\ handed = <<>>
    /\ txpool = TxPoolManager_new
    /\ ended = {}
    /\ slots = None

NextPool ==
    \/ SendTransaction(1)
    \/ \E tx \in GossipTxs : OnTransactionGossip(tx)
    \/ \E tx \in InsertTxs : InsertTx(tx)
    \/ \E now \in SlotTimes : PoolOnSlot(now)
    \/ \E block \in PeerBlocks : PoolImportBlock(block)

SpecPool == InitPool /\ [][NextPool]_vars

\* C23: a gossiped transaction the pool accepts is forwarded to the other
\* peers.
C23_AcceptedTxForwarded ==
    (last.op = "transaction_gossip" /\ last.result = "Ok") => last.tx \in txpool.sent

\* the transactions the pool holds
all_transactions(p) ==
    {p.pending[h] : h \in DOMAIN p.pending} \cup {p.pool[h] : h \in DOMAIN p.pool}

\* C24: pending never holds more than MAX_BLOCK_TX transactions and the
\* queue never more than MAX_QUEUE_TX.
C24_PoolLimits ==
    /\ Cardinality(DOMAIN txpool.pending) <= MAX_BLOCK_TX
    /\ Cardinality(DOMAIN txpool.pool) <= MAX_QUEUE_TX

\* C25: when insert_tx is called with the pool at its limits, the entry with
\* the lowest gas price among the pooled transactions and the new one goes:
\* the new transaction stays out when it is cheaper than all of them, and
\* the pool does not grow.
C25_LowestPriceEvicted ==
    [][(/\ last'.op = "insert_tx"
        /\ nops' = nops + 1
        /\ last'.result = "Ok"
        /\ Cardinality(all_transactions(txpool)) >= MAX_BLOCK_TX + MAX_QUEUE_TX)
       => /\ Cardinality(all_transactions(txpool')) <= MAX_BLOCK_TX + MAX_QUEUE_TX
          /\ (\A tx \in all_transactions(txpool) : last'.tx.gas_price < tx.gas_price)
                => last'.tx \notin all_transactions(txpool')]_vars

\* C26: whenever a block becomes the new head (proposed locally or imported
\* from a peer), no transaction stays in the mempool, pending or queued,
\* whose nonce is at most the nonce of its sender in the new head state.
C26_IncludedTxsDropped ==
    [][HeadHeight' > HeadHeight
       => \A tx \in all_transactions(txpool') :
             tx.nonce > HeadAccount(tx.sender)'.nonce]_vars

\* C27: when the proposer builds a block from the pending transactions of
\* the pool, block production completes: a transaction that fails execution
\* is skipped, it does not stop the proposal.
C27_ProposerSkipsBadTx ==
    [][(last'.op = "on_slot" /\ node = "running" /\ txpool.pending # EmptyMap)
       => node' = "running"]_vars

\* C28: a persisted block is never rewritten: once get_block_by_number(n)
\* returns a block it returns the same block after every later proposal and
\* import, and the head height never decreases.
C28_BlocksNeverRewritten ==
    [][/\ HeadHeight' >= HeadHeight
       /\ \A n \in DOMAIN chaindb.numbers :
             get_block_by_number(chaindb, n) # None
                => get_block_by_number(chaindb, n)' = get_block_by_number(chaindb, n)]_vars

\* a block is on genesis and the import of another block at a height the
\* chain already holds was just refused
C28_Witness ==
    /\ HeadHeight >= 1
    /\ last.op = "import_block"
    /\ last.result = "KnownBlock"
    /\ \A n \in 0..HeadHeight : get_block_by_number(chaindb, n) # None

\* C29: when StateDB commit returns, the overlay has been applied to the
\* trie (the new root reads every key as the overlay had it), the overlay is
\* empty, and the root it leaves is the new root.
C29_CommitClearsOverlay ==
    [][(pc = "flushing" /\ pc' = "idle")
       => /\ sdb'.local_changes = EmptyMap
          /\ \A k \in Keys :
                get_storage(StateDB_from_existing(sdb'.state_root), kv', k) = shadow[k]]_vars

\* C30: a BatchProcessed message of the block processor says Success only
\* when every block of its batch is in the chain, and says Failed when the
\* import of one of its blocks failed.
C30_ResultMatchesImport ==
    \A i \in 1..Len(chan) :
        /\ chan[i].result = "Success" =>
              \A j \in 1..Len(chan[i].downloaded_blocks) :
                  chan[i].downloaded_blocks[j] <= local_height
        /\ chan[i].failed => chan[i].result = "Failed"

--------------------------------------------------------------------------
(* The executor on its own: transfers of any sender signed with any key.   *)

\* a key pair that is not the one of the genesis account
OtherKey == "0x0000000000000000000000000000000000000000000000000000000000000002"

\* Address::from(Pubkey): the last 20 bytes of the Blake2b-256 of the key;
\* the address of the genesis key is the one the genesis allocation funds
Address_from(pk) ==
    IF pk = ed_genesis_pub_key THEN Alice ELSE <<"blake2b_256[12..]", pk>>

\* transfers of one unit from sender to receiver, with the next nonce of the
\* sender or the one after it, signed with the private key of pk
ExecTxs ==
    {Transaction_sign(
        Transaction_new(pair[1], load_account(Facade, pair[1]).nonce + d, 1, 1,
                        "balance.transfer", EncodeMsgTransfer(pair[2], 1)),
        pk) : pair \in {<<Alice, Bob>>, <<Bob, Alice>>},
              d \in {1, 2},
              pk \in {ed_genesis_pub_key, OtherKey}}

\* Executor::exc_transfer_tx on the open state
ExecTransferTx(tx) ==
    \E r \in {exc_transfer_tx(tx, Facade)} :
       /\ node = "running"
       /\ nops < MaxExecOps
       /\ ~load_account_panics(Facade, tx.sender)
       /\ nops' = nops + 1
       /\ node' = IF r.state.panicked THEN "panicked" ELSE "running"
       /\ sdb' = IF r.state.panicked THEN sdb ELSE r.state.treedb
       /\ kv' = IF r.state.panicked THEN kv ELSE r.state.backend
       /\ last' = [op |-> "exc_transfer_tx",
                   result |-> IF r.state.panicked THEN "panic"
                              ELSE IF r.err = "none" THEN "Ok" ELSE r.err,
                   tx |-> tx]
       /\ UNCHANGED <<pend, pc, ncommit, shadow, committed, pre_kv, new_nodes,
                      chaindb, build>>
       /\ UNCHANGED netVars

NextExec ==
    \/ \E tx \in ExecTxs : ExecTransferTx(tx)
    \/ \E value \in Amounts : AddBalance(Bob, value)

SpecExec == InitBalance /\ [][NextExec]_vars

\* C31: executing a transaction changes the balance or the nonce of its
\* sender only if the signature was made with the key whose address is the
\* sender.
C31_OnlyOwnerSpends ==
    [][(/\ last'.op = "exc_transfer_tx"
        /\ nops' = nops + 1
        /\ load_account(Balance_new(sdb', kv'), last'.tx.sender)
              # load_account(Facade, last'.tx.sender))
       => /\ verify_sign(last'.tx)
          /\ Address_from(last'.tx.sign_data[2]) = last'.tx.sender]_vars

--------------------------------------------------------------------------
(* Range sync with one peer that answers correctly and one whose requests  *)
(* can also end in an out-of-range response, an RPC error or a disconnect. *)

HonestPeer == "p1"

FaultyPeer == "p2"

\* SyncMessage::RPCError in SyncManager::poll: the message is printed
rpc_error(x, peer_id, request_id) == x

\* RangeSync::remove_peer, whose body is empty
remove_peer(x, peer_id) == x

\* SyncManager::peer_disconnect: RangeSync::peer_disconnect, then the peer
\* leaves full_peers and the state is updated
peer_disconnect(m, x, peer_id) ==
    Eval(remove_peer(x, peer_id), LAMBDA y :
        [x |-> y, m |-> update_state([m EXCEPT !.full_peers = @ \ {peer_id}], y.c)])

\* the requests sent to peer_id that are still open
open_requests(peer_id) ==
    {r \in DOMAIN rs.pending_batches :
        rs.pending_batches[r].current_peer = peer_id /\ r \notin ended}

\* a response with a block below the range of its batch
below_range(batch) == <<batch.start_numer - 1>> \o served_blocks(batch, RemoteHead)

\* the request ends in an RPC error: on_rpc_error, SyncMessage::RPCError
OnRPCError(request_id) ==
    /\ node = "running"
    /\ request_id \in open_requests(FaultyPeer)
    /\ ended' = ended \cup {request_id}
    /\ last' = [op |-> "RPCError", result |-> request_id]
    /\ \E x \in {rpc_error(Ctx(rs, net), FaultyPeer, request_id)} :
          /\ Handled(x)
          /\ mgr' = update_state(mgr, x.c)
    /\ UNCHANGED <<local_height, chan, queue, nops, node, stateVars, chaindb, build, txpool, slots>>

\* the peer disconnects: its open requests get no response any more
\* (on_disconnect, SyncMessage::Disconnect)
OnDisconnect(peer_id) ==
    /\ node = "running"
    /\ open_requests(peer_id) # {}
    /\ ended' = ended \cup open_requests(peer_id)
    /\ last' = [op |-> "Disconnect", result |-> peer_id]
    /\ \E d \in {peer_disconnect(mgr, Ctx(rs, net), peer_id)} :
          /\ Handled(d.x)
          /\ mgr' = d.m
    /\ UNCHANGED <<local_height, chan, queue, nops, node, stateVars, chaindb, build, txpool, slots>>

\* the peer answers with the blocks asked for
HonestResponse ==
    \E r \in DOMAIN rs.pending_batches :
        OnBlocksByRange(r, served_blocks(rs.pending_batches[r], RemoteHead))
        /\ UNCHANGED ended

\* the faulty peer answers out of range
OutOfRangeResponse ==
    \E r \in open_requests(FaultyPeer) :
        OnBlocksByRange(r, below_range(rs.pending_batches[r])) /\ UNCHANGED ended

\* a peer sends its Status once, when it connects
ConnectStatus(peer_id) ==
    /\ peer_id \notin rs.peer_pool
    /\ OnStatus(peer_id, status_message(RemoteHead), MaxLiveEvents)
    /\ UNCHANGED ended

InitLive ==
    /\ InitNet
    /\ build = "release"

NextLive ==
    \/ \E p \in {HonestPeer, FaultyPeer} : ConnectStatus(p)
    \/ HonestResponse
    \/ OutOfRangeResponse
    \/ \E r \in DOMAIN rs.pending_batches : OnRPCError(r)
    \/ OnDisconnect(FaultyPeer)
    \/ \E w \in workers : WorkerImport(w)
    \/ \E w \in workers : WorkerReport(w)
    \/ OnBatchProcessed

\* every peer sends its Status, every open request ends one way or another,
\* the honest peer answers its requests, and the threads and the manager
\* keep running
FairLive ==
    /\ WF_vars(ConnectStatus(HonestPeer))
    /\ WF_vars(HonestResponse \/ OutOfRangeResponse
               \/ (\E r \in DOMAIN rs.pending_batches : OnRPCError(r))
               \/ OnDisconnect(FaultyPeer))
    /\ WF_vars(\E r \in open_requests(HonestPeer) :
                  OnBlocksByRange(r, served_blocks(rs.pending_batches[r], RemoteHead)))
    /\ WF_vars(\E w \in workers : WorkerImport(w))
    /\ WF_vars(\E w \in workers : WorkerReport(w))
    /\ WF_vars(OnBatchProcessed)

SpecLive == InitLive /\ [][NextLive]_vars /\ FairLive

\* C32: with a peer that holds the target chain, stays connected and answers
\* correctly, range sync brings the head to target_head_slot, whatever
\* happens to the requests sent to another peer.
C32_RangeSyncCompletes ==
    (rs.state = "Syncing" /\ HonestPeer \in rs.peer_pool)
        ~> (local_height >= RemoteHead)

\* C33: when a block was imported from gossip and a block processor thread
\* had the same block in its batch, the thread ends with the chain it would
\* have left had it taken the chain lock first: every block of its batch is
\* in the chain.
C33_SameChainEitherOrder ==
    \A w \in workers :
        (/\ w.todo = <<>>
         /\ w.downloaded_blocks # <<>>
         /\ last.op = "BlockGossip"
         /\ last.result.forward
         /\ \E i \in 1..Len(w.downloaded_blocks) :
               w.downloaded_blocks[i] = last.result.height)
        => local_height >= w.downloaded_blocks[Len(w.downloaded_blocks)]

--------------------------------------------------------------------------
(* The chain of a node that can stop in the middle of an import and is     *)
(* started again on the store it left.                                     *)

\* import_block stops after db.write_block and before db.write_head_hash;
\* the node is started again: BlockChain::load on the store as it is
StopInImport(block) ==
    \E r \in {import_block(chaindb, kv, block)} :
       /\ HeadHeight < MaxHeight
       /\ node = "running"
       /\ r.result = "Ok"
       /\ \E loaded \in {load(write_block(chaindb, block), r.kv)} :
             /\ chaindb' = loaded.db
             /\ kv' = loaded.kv
       /\ last' = [op |-> "restart", result |-> "Ok", err |-> "none"]
       /\ UNCHANGED <<sdb, pend, pc, ncommit, shadow, committed, pre_kv, new_nodes,
                      build, nops, node>>
       /\ UNCHANGED netVars

NextCrash ==
    \/ \E block \in CandidateBlocks : ImportBlock(block)
    \/ \E block \in CandidateBlocks : StopInImport(block)

SpecCrash == Init /\ [][NextCrash]_vars

\* C34: on a running node, also one that stopped between writing a block
\* and updating the head pointer and was started again, a valid block at
\* head height + 1 can be imported.
C34_HeadExtendable ==
    node = "running" => import_block(chaindb, kv, BlockOnHead(<<>>)).result = "Ok"

\* C35: whenever range sync starts, the start number of the syncing chain
\* is the head of the node, so that the first batch begins at head + 1.
C35_StartsAtLocalHead ==
    [][(rs.state = "Stopped" /\ rs'.state = "Syncing")
       => rs'.start_numer = local_height']_vars

--------------------------------------------------------------------------
(* SpecSlot: the slot clock of the committee.  Every member runs a        *)
(* SlotTick and calls on_slot for the slot id the tick yields; the node    *)
(* itself builds its block on its own chain.                               *)

\* the seconds since the genesis time the clock is followed for
MaxSlotTime == 13

\* the node and another member of the committee of the epoch
ThisNode == "v1"

OtherNode == "v2"

Committee == {ThisNode, OtherNode}

\* how long after the start of a slot the members start
StartTimes == {0, SLOT_DURATION - 1}

\* SlotTick::poll once the delay has fired: the next deadline is the old
\* one plus the slot duration, the slot id is read from the wall clock
SlotTick_poll(delay, now) ==
    [delay |-> delay + SLOT_DURATION, slot |-> now \div SLOT_DURATION]

\* the values cmp_random_threshold may give for the VRF value of member for
\* slot sid: the value is fixed by the key and the slot id
cmp_random_threshold(member, sid) ==
    IF <<member, sid>> \in DOMAIN slots.vrf
    THEN {slots.vrf[<<member, sid>>]}
    ELSE BOOLEAN

\* the slot clock after the tick of member gave slot id sid, the VRF value
\* was under the threshold or not, and a block was published or not
after_slot(member, tick, under, published) ==
    [slots EXCEPT
        !.delay = [slots.delay EXCEPT ![member] = tick.delay],
        !.vrf = (<<member, tick.slot>> :> under) @@ slots.vrf,
        !.proposed = IF published
                     THEN Append(slots.proposed, [slot |-> tick.slot, proposer |-> member])
                     ELSE slots.proposed]

\* the wall clock moves on by a second
Elapse ==
    /\ slots.now < MaxSlotTime
    /\ slots' = [slots EXCEPT !.now = slots.now + 1]
    /\ UNCHANGED <<stateVars, chainVars, local_height, rs, mgr, net, workers, chan,
                   queue, handed, txpool, ended>>

\* make_proposal on the node: the tick fires at or after its deadline and
\* on_slot proposes a block if make_slot_proposer gives a VRF value
NodeSlotTick ==
    /\ node = "running"
    /\ slots.now >= slots.delay[ThisNode]
    /\ \E tick \in {SlotTick_poll(slots.delay[ThisNode], slots.now)} :
       \E under \in cmp_random_threshold(ThisNode, tick.slot) :
          IF under
          THEN /\ ChainOnSlot(<<>>, GENESIS_TIME + slots.now)
               /\ slots' = after_slot(ThisNode, tick, under, last'.result = "Ok")
          ELSE /\ slots' = after_slot(ThisNode, tick, under, FALSE)
               /\ UNCHANGED <<stateVars, chainVars>>
    /\ UNCHANGED <<local_height, rs, mgr, net, workers, chan, queue, handed, txpool, ended>>

\* make_proposal on the other member, whose chain takes the block it builds
MemberSlotTick ==
    /\ slots.now >= slots.delay[OtherNode]
    /\ \E tick \in {SlotTick_poll(slots.delay[OtherNode], slots.now)} :
       \E under \in cmp_random_threshold(OtherNode, tick.slot) :
          slots' = after_slot(OtherNode, tick, under, under)
    /\ UNCHANGED <<stateVars, chainVars, local_height, rs, mgr, net, workers, chan,
                   queue, handed, txpool, ended>>

InitSlot ==
    /\ build = "release"
    /\ kv = load(NoChain, {}).kv
    /\ chaindb = load(NoChain, {}).db
    /\ node = "running"
    /\ last = [op |-> "load", result |-> "Ok", err |-> "none"]
    /\ nops = 0
    /\ sdb = StateDB_from_existing(NULL_ROOT)
    /\ pend = {}
    /\ pc = "idle"
    /\ ncommit = 0
    /\ shadow = NoContent
    /\ committed = (NULL_ROOT :> NoContent)
    /\ pre_kv = {}
    /\ new_nodes = {}
    /\ local_height = 0
    /\ rs = None
    /\ mgr = None
    /\ net = None
    /\ workers = {}
    /\ chan = <<>>
    /\ queue = {}
    /\ handed = <<>>
    /\ txpool = None
    /\ ended = {}
    /\ \E start \in StartTimes :
          slots = [now |-> start, delay |-> [m \in Committee |-> start],
                   vrf |-> <<>>, proposed |-> <<>>]

NextSlot ==
    \/ Elapse
    \/ NodeSlotTick
    \/ MemberSlotTick

SpecSlot == InitSlot /\ [][NextSlot]_vars

\* C36: no two of the blocks the committee proposed are for the same slot id
C36_OneBlockPerSlot ==
    slots # None =>
        \A i, j \in 1..Len(slots.proposed) :
            i # j => slots.proposed[i].slot # slots.proposed[j].slot

--------------------------------------------------------------------------
(* The requests of a peer *)

\* the pending BlocksByRange requests of peer
requests_of(peer) ==
    {r \in DOMAIN rs.pending_batches : rs.pending_batches[r].current_peer = peer}

\* C37: in every state no peer has more than one pending BlocksByRange
\* request; a request is pending from send_batch until the end of its stream
\* is handled, so a peer with a request is never given another one.
C37_OneRequestPerPeer ==
    \A r1, r2 \in DOMAIN rs.pending_batches :
        rs.pending_batches[r1].current_peer = rs.pending_batches[r2].current_peer
        => r1 = r2

\* both peers of the pool have a request, and a further batch is wanted
C37_Witness ==
    /\ Cardinality(rs.peer_pool) >= 2
    /\ \A p \in rs.peer_pool : Cardinality(requests_of(p)) = 1
    /\ rs.state = "Syncing"
    /\ ~get_next_batch_is_none(rs)
    /\ last.op = "BlocksByRange"

--------------------------------------------------------------------------
(* The heap of the pool *)

\* C38: every entry of the heap of gas prices names a transaction that is in
\* pending or in the queue, so the entry pop_back takes is always found.
C38_HeapEntriesLive ==
    /\ \A i \in 1..Len(txpool.ordered_queue) :
          txpool.ordered_queue[i].tx_hash \in DOMAIN txpool.pending \cup DOMAIN txpool.pool
    /\ ~(last.op = "insert_tx" /\ last.result = "panic"
         /\ MsgTransfer_decodes(last.tx.data))

--------------------------------------------------------------------------
(* SpecOrphan: the parent lookup of a gossiped orphan block with a peer    *)
(* that may have no block for a root, fail the request or go away.         *)

\* the gossiped blocks one run of SpecOrphan handles
MaxOrphanEvents == 3

\* the peer the BlocksByRoot requests go to
OrphanPeer == "p1"

\* the stream of the BlocksByRoot request for root ends without a block:
\* blocks_by_root_response with None
OnBlocksByRootEnd(root) ==
    /\ node = "running"
    /\ root \in net.root_requests
    /\ last' = [op |-> "BlocksByRootEnd", result |-> [root |-> root, local |-> local_height]]
    /\ \E a \in {blocks_by_root_response(mgr, [net EXCEPT !.root_requests = @ \ {root}],
                                         local_height, None)} :
          /\ mgr' = update_state(a.m, rs)
          /\ net' = a.n
          /\ local_height' = a.local
    /\ UNCHANGED <<rs, workers, chan, queue, handed, nops, node, stateVars, chaindb,
                   build, txpool, ended, slots>>

\* the BlocksByRoot request for root ends in an RPC error: on_rpc_error,
\* SyncMessage::RPCError
OnRootRPCError(root) ==
    /\ node = "running"
    /\ root \in net.root_requests
    /\ last' = [op |-> "RootRPCError", result |-> [root |-> root, local |-> local_height]]
    /\ \E x \in {rpc_error(Ctx(rs, [net EXCEPT !.root_requests = @ \ {root}]),
                           OrphanPeer, root)} :
          /\ Handled(x)
          /\ mgr' = update_state(mgr, x.c)
    /\ UNCHANGED <<local_height, chan, queue, nops, node, stateVars, chaindb, build,
                   txpool, ended, slots>>

\* the peer disconnects with BlocksByRoot requests open: on_disconnect,
\* SyncMessage::Disconnect
OnRootDisconnect ==
    /\ node = "running"
    /\ net.root_requests # {}
    /\ last' = [op |-> "RootDisconnect", result |-> [peer |-> OrphanPeer, local |-> local_height]]
    /\ \E d \in {peer_disconnect(mgr, Ctx(rs, [net EXCEPT !.root_requests = {}]),
                                 OrphanPeer)} :
          /\ Handled(d.x)
          /\ mgr' = d.m
    /\ UNCHANGED <<local_height, chan, queue, nops, node, stateVars, chaindb, build,
                   txpool, ended, slots>>

InitOrphan ==
    /\ InitNet
    /\ build = "release"

NextOrphan ==
    \/ \E h \in GossipHeights(local_height) : OnBlockGossip(h, MaxOrphanEvents)
    \/ \E b \in net.root_requests : OnBlocksByRoot(b)
    \/ \E b \in net.root_requests : OnBlocksByRootEnd(b)
    \/ \E b \in net.root_requests : OnRootRPCError(b)
    \/ OnRootDisconnect

\* every open request comes to an end; the peer is free in how it ends
FairOrphan ==
    WF_vars(\/ \E b \in net.root_requests : OnBlocksByRoot(b)
            \/ \E b \in net.root_requests : OnBlocksByRootEnd(b)
            \/ \E b \in net.root_requests : OnRootRPCError(b)
            \/ OnRootDisconnect)

SpecOrphan == InitOrphan /\ [][NextOrphan]_vars /\ FairOrphan

\* the request of the lookup has ended without a block
NoBlockYielded ==
    /\ last.op \in {"BlocksByRootEnd", "RootRPCError", "RootDisconnect"}
    /\ mgr.parents # <<>>
    /\ net.root_requests = {}

\* C39: a parent lookup whose BlocksByRoot request ended without a block
\* (empty stream, RPC error, disconnect) is abandoned in the end: its
\* downloaded blocks are cleared.
C39_LookupAbandoned == NoBlockYielded ~> (mgr.parents = <<>>)

--------------------------------------------------------------------------
(* SpecQueue: the gossip queue with blocks told apart.  The queue is a     *)
(* PriorityQueue<Block, i64>: two blocks of one height are two items.      *)
(* Peers gossip blocks the node cannot import yet, several of one height.  *)

\* the blocks the queue is filled up to in one run of SpecQueue
MaxQueueBlocks == 513

\* a gossiped block: its height, which of the blocks of that height it is,
\* and whether import_block takes it on its parent
GossipedBlock(height, fork, valid) == [height |-> height, fork |-> fork, valid |-> valid]

\* the height of the items PriorityQueue::pop can give: the priority is the
\* negated height
queue_low(q) ==
    CHOOSE h \in {b.height : b \in q} : \A g \in {b.height : b \in q} : h <= g

\* the loop of on_block_gossip over a queue of blocks, current_height being
\* the height read before the loop: the set of [queue, local, orphan, find,
\* broadcast]; pop takes any of the lowest blocks
RECURSIVE block_gossip_loop(_, _, _, _, _, _)
block_gossip_loop(q, local, current_height, block, find, sent) ==
    IF q = {}
    THEN {[queue |-> q, local |-> local, orphan |-> FALSE,
           find |-> find, broadcast |-> sent]}
    ELSE IF queue_low(q) > current_height + 1
         THEN {[queue |-> q, local |-> local,
                orphan |-> block.height > current_height + SLOT_IMPORT_TOLERANCE,
                find |-> find, broadcast |-> sent]}
    ELSE UNION {
            IF b.height = current_height + 1
            THEN IF b.valid /\ chain_import(local, b.height).ok
                 THEN block_gossip_loop(q \ {b}, chain_import(local, b.height).local,
                                        current_height, block,
                                        find \/ b.height = block.height,
                                        IF b.height = block.height THEN sent
                                        ELSE sent \cup {b})
                 ELSE {[queue |-> q \ {b}, local |-> local, orphan |-> FALSE,
                        find |-> find, broadcast |-> sent]}
            ELSE block_gossip_loop(q \ {b}, local, current_height, block, find, sent)
            : b \in {c \in q : c.height = queue_low(q)}}

\* MessageProcessor::on_block_gossip of a block, in a release build or with
\* a block not below the head
on_block_gossip_of(q, local, block) ==
    IF wrapping_sub_lt(block.height, local, QUEUE_GOSSIP_BLOCK)
    THEN block_gossip_loop(q \cup {block}, local, local, block, FALSE, {})
    ELSE {[queue |-> q, local |-> local, orphan |-> FALSE,
           find |-> FALSE, broadcast |-> {}]}

\* a block is gossiped to the node: on_block_gossip, and for an orphan
\* SyncManager::add_unknown_block
OnGossipedBlock(block) ==
    /\ node = "running"
    /\ Cardinality(queue) < MaxQueueBlocks
    /\ IF build = "debug" /\ block.height < local_height
       THEN /\ node' = "panicked"
            /\ last' = [op |-> "BlockGossip",
                        result |-> [height |-> block.height, local |-> local_height,
                                    forward |-> FALSE, broadcast |-> {}]]
            /\ UNCHANGED <<local_height, queue, mgr, net>>
       ELSE \E g \in on_block_gossip_of(queue, local_height, block) :
               /\ node' = node
               /\ last' = [op |-> "BlockGossip",
                           result |-> [height |-> block.height, local |-> local_height,
                                       forward |-> g.find, broadcast |-> g.broadcast]]
               /\ queue' = g.queue
               /\ local_height' = g.local
               /\ \E a \in {IF g.orphan THEN add_unknown_block(mgr, net, block.height)
                            ELSE [m |-> mgr, n |-> net]} :
                     /\ mgr' = (IF g.orphan THEN update_state(a.m, rs) ELSE a.m)
                     /\ net' = a.n
    /\ UNCHANGED <<rs, workers, chan, handed, nops, stateVars, chaindb, build, txpool,
                   ended, slots>>

\* the blocks the peers gossip: one more block two above the head, a block
\* on the head that import_block refuses, a block far above the head, a
\* block out of the window, a block gossiped before
FloodBlocks ==
    {GossipedBlock(local_height + 2,
                   Cardinality({b \in queue : b.height = local_height + 2}) + 1, FALSE),
     GossipedBlock(local_height + 1, 1, FALSE),
     GossipedBlock(local_height + SLOT_IMPORT_TOLERANCE + 1, 1, FALSE),
     GossipedBlock(local_height + QUEUE_GOSSIP_BLOCK, 1, FALSE),
     GossipedBlock(local_height + 2, 1, FALSE)}

InitQueue ==
    /\ InitNet
    /\ build = "release"

NextQueue == \E block \in FloodBlocks : OnGossipedBlock(block)

SpecQueue == InitQueue /\ [][NextQueue]_vars

\* C40: the gossip queue never holds more than QUEUE_GOSSIP_BLOCK blocks.
C40_QueueBound == Cardinality(queue) <= QUEUE_GOSSIP_BLOCK

=============================================================================
